---- MODULE Spec2Model ----
(***************************************************************************)
(* Model of the digital-twin RAG toolkit: the upload scripts that write   *)
(* vectors to the shared Upstash index, the namespace-filtered retrieval  *)
(* (query_namespace, query_vectors), the interview question classifier    *)
(* and the text-only response validator.                                  *)
(*                                                                         *)
(* A vector id is modelled as a record [prefix, stem, nums]: the id text  *)
(* is prefix ++ stem ++ the numbers, e.g. "dt-personal_1" is              *)
(* [prefix |-> "dt-", stem |-> "personal_", nums |-> <<1>>], so that       *)
(* str.startswith('dt-') is a test of the prefix field.                   *)
(* A stored record is [id, ns]: ns is the value of metadata['namespace'], *)
(* or NoNamespaceKey when the metadata has no such key, or NoMetadata     *)
(* when the record has no metadata at all.                                *)
(***************************************************************************)
EXTENDS Integers, Sequences, FiniteSets, TLC

VARIABLES store, runs, last, question, classified, response, validation,
          knowledge_base, interview, build, rag, practice_sessions, trainer

vars ==
    <<store, runs, last, question, classified, response, validation,
      knowledge_base, interview, build, rag, practice_sessions, trainer>>

storeVars == <<store, runs, last>>
classifyVars == <<question, classified>>
validateVars == <<response, validation>>
interviewVars == <<knowledge_base, interview>>
buildVars == <<build>>
ragVars == <<rag>>
trainerVars == <<practice_sessions, trainer>>

(***************************************************************************)
(* Bounds of the model.                                                    *)
(***************************************************************************)
MaxTopK == 3
MaxFoods == 1
MaxRuns == 2
MaxSentences == 2
MaxWords == 251
MaxPool == 4
MaxEntries == 2
MaxStories == 1
MaxFoodItems == 3
MaxCalls == 3
MaxVectors == 101
MaxSubRecords == 2
MaxSessions == 11

(***************************************************************************)
(* Sequence helpers.                                                       *)
(***************************************************************************)
Prefix(s, n) == IF Len(s) <= n THEN s ELSE SubSeq(s, 1, n)

Range(s) == {s[i] : i \in DOMAIN s}

\* A key that a dictionary does not have.
Absent == "<absent>"

\* d.get(key, default)
Get(d, key, default) == IF d[key] = Absent THEN default ELSE d[key]

(***************************************************************************)
(* Vector ids and metadata.                                                *)
(***************************************************************************)
NoMetadata == "<no metadata>"
NoNamespaceKey == "<no namespace key>"

MkId(prefix, stem, nums) == [prefix |-> prefix, stem |-> stem, nums |-> nums]

\* f"dt-{chunk['id']}" and f"food-{chunk['id']}"
DtId(chunkId) == MkId("dt-", chunkId.stem, chunkId.nums)
FoodId(chunkId) == MkId("food-", chunkId.stem, chunkId.nums)

(***************************************************************************)
(* Chunk builders.  A chunk is [id, type]; its id is [stem, nums].        *)
(***************************************************************************)
Chunk(stem, nums, type) == [id |-> [stem |-> stem, nums |-> nums], type |-> type]

\* A profile document (config/digitaltwin.json).  personal_info,
\* career_objectives and unique_value_propositions: the section is present
\* and not empty.  work_experience and education: one record per entry, with
\* its leaf fields (Absent for a missing one) and the number of its STAR
\* stories.  projects: the number of entries.  technical_skills: its
\* categories in the order of the document, each a list or not.
\* behavioral_competencies: its areas in order with the number of entries.
\* interview_preparation: the categories of additional_star_stories and the
\* numbers of strength, challenge and growth stories.
Entry(position, company, duration, star_stories) ==
    [position |-> position, company |-> company, duration |-> duration,
     star_stories |-> star_stories]

NoInterviewPreparation ==
    [additional_star_stories |-> <<>>, strength_stories |-> 0,
     challenge_stories |-> 0, growth_stories |-> 0]

EmptyProfile ==
    [personal_info |-> FALSE, career_objectives |-> FALSE,
     work_experience |-> <<>>, technical_skills |-> <<>>, projects |-> 0,
     education |-> <<>>, behavioral_competencies |-> <<>>,
     interview_preparation |-> NoInterviewPreparation,
     unique_value_propositions |-> FALSE]

\* The profiles the upload scripts are run on.
Profiles ==
    {[EmptyProfile EXCEPT !.personal_info = p, !.career_objectives = c] :
        p \in BOOLEAN, c \in BOOLEAN}

\* A chunk with the title and the content the builder renders.
ChunkWith(stem, nums, type, title, content) ==
    [id |-> [stem |-> stem, nums |-> nums], type |-> type,
     title |-> title, content |-> content]

\* "Personal Information": two chunks, each followed by chunk_id += 1.
PersonalChunks(profile, chunk_id) ==
    IF profile.personal_info
    THEN << Chunk("personal_", <<chunk_id>>, "personal_info"),
            Chunk("availability_", <<chunk_id + 1>>, "availability") >>
    ELSE <<>>

\* "Career Objectives": one chunk.
CareerChunks(profile, chunk_id) ==
    IF profile.career_objectives
    THEN << Chunk("career_", <<chunk_id>>, "career_objectives") >>
    ELSE <<>>

\* exp_content of an entry whose key_responsibilities, achievements and
\* technologies are missing: the three joins are empty.
exp_content(experience) ==
    "Position: " \o Get(experience, "position", "") \o " at "
        \o Get(experience, "company", "") \o " ("
        \o Get(experience, "duration", "") \o "). "
        \o "Key responsibilities: . " \o "Achievements: . " \o "Technologies: ."

\* The STAR stories of entry i: story j gets the counter chunk_id + j - 1.
StoryChunks(stem, type, i, n, chunk_id) ==
    [j \in 1..n |-> Chunk(stem, <<i, j, chunk_id + j - 1>>, type)]

\* "Work Experience": per entry the main chunk, then its STAR stories.
RECURSIVE WorkExperienceChunks(_, _, _)
WorkExperienceChunks(entries, i, chunk_id) ==
    IF i > Len(entries) THEN <<>>
    ELSE LET experience == entries[i]
             own == << ChunkWith("experience_", <<i, chunk_id>>, "work_experience",
                                 Get(experience, "position", "") \o " at "
                                     \o Get(experience, "company", ""),
                                 exp_content(experience)) >>
                    \o StoryChunks("star_", "star_story", i,
                                   experience.star_stories, chunk_id + 1)
         IN  own \o WorkExperienceChunks(entries, i + 1, chunk_id + Len(own))

\* A technical skills builder that makes a chunk of every category that is
\* not programming_languages, list or not.
TechnicalSkillsChunksOfAnyKind(tech_skills, chunk_id) ==
    LET prog_langs == \E k \in DOMAIN tech_skills :
                          tech_skills[k].category = "programming_languages"
        others_ == SelectSeq(tech_skills,
                             LAMBDA c : c.category # "programming_languages")
        programming == IF prog_langs
                       THEN << Chunk("programming_", <<chunk_id>>, "technical_skills") >>
                       ELSE <<>>
    IN  programming
        \o [k \in DOMAIN others_ |->
               Chunk("tech_" \o others_[k].category \o "_",
                     <<chunk_id + Len(programming) + k - 1>>, "technical_skills")]

\* "Technical Skills": one chunk for a non-empty programming_languages, then
\* one per other category that is a list, in the order of the document.
TechnicalSkillsChunks(tech_skills, chunk_id) ==
    LET prog_langs == \E k \in DOMAIN tech_skills :
                          tech_skills[k].category = "programming_languages"
        lists == SelectSeq(tech_skills,
                           LAMBDA c : c.category # "programming_languages" /\ c.is_list)
        programming == IF prog_langs
                       THEN << Chunk("programming_", <<chunk_id>>, "technical_skills") >>
                       ELSE <<>>
    IN  programming
        \o [k \in DOMAIN lists |->
               Chunk("tech_" \o lists[k].category \o "_",
                     <<chunk_id + Len(programming) + k - 1>>, "technical_skills")]

\* "Projects": one chunk per entry.
ProjectChunks(n, chunk_id) ==
    [i \in 1..n |-> Chunk("project_", <<i, chunk_id + i - 1>>, "project")]

\* "Education": per entry the main chunk, then its STAR stories.
RECURSIVE EducationChunks(_, _, _)
EducationChunks(entries, i, chunk_id) ==
    IF i > Len(entries) THEN <<>>
    ELSE LET own == << Chunk("education_", <<i, chunk_id>>, "education") >>
                    \o StoryChunks("edu_star_", "education_star_story", i,
                                   entries[i].star_stories, chunk_id + 1)
         IN  own \o EducationChunks(entries, i + 1, chunk_id + Len(own))

\* "Behavioral Competencies": per area, one chunk per competency.
RECURSIVE BehavioralChunks(_, _, _)
BehavioralChunks(areas, a, chunk_id) ==
    IF a > Len(areas) THEN <<>>
    ELSE LET own == [i \in 1..areas[a].competencies |->
                        Chunk("behavioral_" \o areas[a].competency_area \o "_",
                              <<i, chunk_id + i - 1>>, "behavioral_competency")]
         IN  own \o BehavioralChunks(areas, a + 1, chunk_id + Len(own))

story_types == <<"strength_stories", "challenge_stories", "growth_stories">>

\* The stories of the story types from the t-th on.
RECURSIVE StoryTypeChunks(_, _, _)
StoryTypeChunks(interview_prep, t, chunk_id) ==
    IF t > Len(story_types) THEN <<>>
    ELSE LET story_type == story_types[t]
             own == [i \in 1..interview_prep[story_type] |->
                        Chunk("interview_" \o story_type \o "_",
                              <<i, chunk_id + i - 1>>, "interview_" \o story_type)]
         IN  own \o StoryTypeChunks(interview_prep, t + 1, chunk_id + Len(own))

\* "Interview Preparation": the additional STAR stories, then the strength,
\* challenge and growth stories.
InterviewPreparationChunks(interview_prep, chunk_id) ==
    LET additional_stars == interview_prep.additional_star_stories
        stars == [k \in DOMAIN additional_stars |->
                     Chunk("interview_star_" \o additional_stars[k] \o "_",
                           <<chunk_id + k - 1>>, "interview_star_story")]
    IN  stars \o StoryTypeChunks(interview_prep, 1, chunk_id + Len(stars))

\* "Unique Value Propositions": one chunk for a non-empty list.
UvpChunks(profile, chunk_id) ==
    IF profile.unique_value_propositions
    THEN << Chunk("uvp_", <<chunk_id>>, "value_proposition") >>
    ELSE <<>>

\* chunk_id starts at 1 and is incremented after every emitted chunk, so it
\* is 1 + the number of chunks emitted so far.
create_content_chunks(profile) ==
    LET personal == PersonalChunks(profile, 1)
        career == personal \o CareerChunks(profile, 1 + Len(personal))
        work == career \o WorkExperienceChunks(profile.work_experience, 1, 1 + Len(career))
        tech == work \o TechnicalSkillsChunks(profile.technical_skills, 1 + Len(work))
        projects == tech \o ProjectChunks(profile.projects, 1 + Len(tech))
        education == projects \o EducationChunks(profile.education, 1, 1 + Len(projects))
        behavioral == education
            \o BehavioralChunks(profile.behavioral_competencies, 1, 1 + Len(education))
        interview_prep == behavioral
            \o InterviewPreparationChunks(profile.interview_preparation, 1 + Len(behavioral))
    IN  interview_prep \o UvpChunks(profile, 1 + Len(interview_prep))

\* A food builder that numbers every chunk like the first.
create_food_chunks_first_index(n) == [i \in 1..n |-> Chunk("food_", <<1>>, "food_item")]

\* foods.json with n items: chunk i (from 0) gets id f"food_{i+1}".
create_food_chunks(n) == [i \in 1..n |-> Chunk("food_", <<i>>, "food_item")]

\* The 'content_chunks' list of digitaltwin.json read by the first-generation
\* upload (embed_digitaltwin.py, digitaltwin_rag.py): the ids are the file's.
ContentChunkLists == { <<>>, << Chunk("personal-", <<1>>, "personal") >> }

\* create_optimized_chunks: four unconditional chunks, then 'star_stories'
\* and 'projects' when the data has those keys.
OptimizedData == [star_stories : BOOLEAN, projects : BOOLEAN]

create_optimized_chunks(data) ==
    << Chunk("overview", <<>>, "personal_overview"),
       Chunk("education", <<>>, "education"),
       Chunk("experience", <<>>, "experience"),
       Chunk("skills", <<>>, "skills") >>
    \o (IF data.star_stories THEN << Chunk("star_stories", <<>>, "behavioral") >> ELSE <<>>)
    \o (IF data.projects THEN << Chunk("projects", <<>>, "projects") >> ELSE <<>>)

\* load_digital_twin_data of simple_optimized_upload.py: three fixed chunks.
load_digital_twin_data ==
    << Chunk("academic_professional_overview", <<>>, "overview"),
       Chunk("technical_skills_projects", <<>>, "skills"),
       Chunk("behavioral_achievements", <<>>, "behavioral") >>

(***************************************************************************)
(* The vectors each upload path prepares from its chunks.                  *)
(***************************************************************************)
Vector(id, ns) == [id |-> id, ns |-> ns]

\* scripts/embed_digitaltwin_namespaced.py: NAMESPACE = "digitaltwin"
NamespacedDtVectors(chunks) ==
    [i \in DOMAIN chunks |-> Vector(DtId(chunks[i].id), "digitaltwin")]

\* scripts/embed_foods_namespaced.py: NAMESPACE = "foods"
NamespacedFoodVectors(chunks) ==
    [i \in DOMAIN chunks |-> Vector(FoodId(chunks[i].id), "foods")]

\* scripts/reorganize_namespaces.py: "namespace": "dt" and "namespace": "food"
CleanDtVectors(chunks) ==
    [i \in DOMAIN chunks |-> Vector(DtId(chunks[i].id), "dt")]

CleanFoodVectors(chunks) ==
    [i \in DOMAIN chunks |-> Vector(FoodId(chunks[i].id), "food")]

\* embed_digitaltwin.py and setup_vector_database: "dt-" prefix, metadata
\* with title/type/content/category/tags/source and no 'namespace' key.
LegacyDtVectors(chunks) ==
    [i \in DOMAIN chunks |-> Vector(DtId(chunks[i].id), NoNamespaceKey)]

\* upload_optimized_data and upload_chunks: 'id': chunk['id'] (no prefix),
\* metadata with category/keywords/priority and no 'namespace' key (the
\* 'namespace': 'dt' entry is a key of the vector dict, not of its metadata).
OptimizedVector(chunk) ==
    Vector(MkId("", chunk.id.stem, chunk.id.nums), NoNamespaceKey)


(***************************************************************************)
(* The vector index (Upstash).  It holds one record per id; upsert        *)
(* overwrites, query ranks the stored records by relevance to the text    *)
(* and returns the first top_k of them with their metadata.  It has no    *)
(* namespace filter.                                                       *)
(***************************************************************************)
Texts == {"experience skills", "nutrition protein"}
SampleText == "sample query to get all data"

IdsOf(recs) == {r.id : r \in recs}

Upsert(S, vectors) == {r \in S : r.id \notin IdsOf(vectors)} \cup vectors

Delete(S, ids) == {r \in S : r.id \notin ids}

\* The index's relevance ranking is opaque to the program.  The model fixes
\* one total order of the ids and lets the query text choose its direction,
\* so that dt and food records interleave in the ranking.
StemRank(stem) ==
    CASE stem = "food_" -> 1
      [] stem = "personal_" -> 2
      [] stem = "shared_" -> 3
      [] stem = "availability_" -> 4
      [] stem = "apple" -> 5
      [] stem = "career_" -> 6
      [] stem = "recipe_" -> 7
      [] stem = "personal-" -> 8
      [] stem = "overview" -> 9
      [] stem = "academic_professional_overview" -> 10
      [] stem = "education" -> 11
      [] stem = "technical_skills_projects" -> 12
      [] stem = "experience" -> 13
      [] stem = "behavioral_achievements" -> 14
      [] stem = "skills" -> 15
      [] stem = "star_stories" -> 16
      [] OTHER -> 17

IdOrd(id) ==
    StemRank(id.stem) * 100
    + (IF Len(id.nums) >= 1 THEN id.nums[1] * 10 ELSE 0)
    + (IF Len(id.nums) >= 2 THEN id.nums[2] ELSE 0)

Score(text, id) == IF text = "nutrition protein" THEN 3000 - IdOrd(id) ELSE IdOrd(id)

RECURSIVE Ranked(_, _)
Ranked(S, text) ==
    IF S = {} THEN <<>>
    ELSE LET top == CHOOSE r \in S : \A o \in S : Score(text, r.id) >= Score(text, o.id)
         IN  <<[id |-> top.id, score |-> Score(text, top.id), ns |-> top.ns]>>
             \o Ranked(S \ {top}, text)

\* index.query(data=text, top_k=k, include_metadata=True)
StoreQuery(S, text, k) == Prefix(Ranked(S, text), k)

(***************************************************************************)
(* Namespace-filtered retrieval.                                           *)
(***************************************************************************)
\* result.metadata.get('namespace', 'unknown') if result.metadata else 'unknown'
MetaNamespace(hit) ==
    IF hit.ns = NoMetadata \/ hit.ns = NoNamespaceKey THEN "unknown" ELSE hit.ns

\* chunk_info of query_namespace: id and score of the hit, and the namespace
\* read from its metadata.
ChunkInfo(hit) == [id |-> hit.id, score |-> hit.score, namespace |-> MetaNamespace(hit)]

\* A filter that also lets through the hits that carry no namespace label.
NamespaceMatchesOrUnknown(hit, namespace) ==
    MetaNamespace(hit) \in {namespace, "unknown"}

\* "if result_namespace != namespace: continue"
NamespaceMatches(hit, namespace) == MetaNamespace(hit) = namespace

\* A request for three times top_k raw results, with no truncation after it.
NamespaceFetchSizeTripled(top_k) == top_k * 3

\* The number of raw results query_namespace asks the index for.
NamespaceFetchSize(top_k) == top_k

RECURSIVE FilterNamespace(_, _)

\* A filter that puts each later match in front of the earlier ones.
FilterNamespaceNewestFirst(results, namespace) ==
    IF results = <<>> THEN <<>>
    ELSE FilterNamespace(Tail(results), namespace)
         \o (IF NamespaceMatches(Head(results), namespace)
             THEN <<ChunkInfo(Head(results))>> ELSE <<>>)

FilterNamespace(results, namespace) ==
    IF results = <<>> THEN <<>>
    ELSE (IF NamespaceMatches(Head(results), namespace)
          THEN <<ChunkInfo(Head(results))>> ELSE <<>>)
         \o FilterNamespace(Tail(results), namespace)

\* query_namespace: the value returned, given whether the index call
\* succeeded.  Any exception is caught and [] is returned.
query_namespace(S, text, namespace, top_k, ok) ==
    IF ~ok THEN <<>>
    ELSE LET results == StoreQuery(S, text, NamespaceFetchSize(top_k))
         IN  IF results = <<>> THEN <<>> ELSE FilterNamespace(results, namespace)

\* "result.id.startswith('dt-')" of query_vectors
IsDigitalTwinVector(hit) == hit.id.prefix = "dt-"

\* top_k * 3 of query_vectors
VectorsFetchSize(top_k) == top_k * 3

\* The loop of query_vectors: keep the dt- hits, stop at top_k of them.
RECURSIVE FilterDigitalTwin(_, _, _)
FilterDigitalTwin(results, top_k, kept) ==
    IF results = <<>> THEN kept
    ELSE IF IsDigitalTwinVector(Head(results))
         THEN LET more == Append(kept, Head(results))
              IN  IF Len(more) >= top_k THEN more
                  ELSE FilterDigitalTwin(Tail(results), top_k, more)
         ELSE FilterDigitalTwin(Tail(results), top_k, kept)

\* query_vectors: the list returned; None (modelled as <<>> with ok = FALSE
\* recorded by the caller) when the index call raises.
query_vectors(S, text, top_k, ok) ==
    IF ~ok THEN <<>>
    ELSE FilterDigitalTwin(StoreQuery(S, text, VectorsFetchSize(top_k)), top_k, <<>>)

(***************************************************************************)
(* Batched upload: "for i in range(0, len(vectors), batch_size)".          *)
(***************************************************************************)
BatchSize == 50

BatchStarts(vectors) == {i \in 0..(Len(vectors) - 1) : i % BatchSize = 0}

\* vectors[i:i+batch_size] for the batch that starts at index i (from 0)
Batch(vectors, i) ==
    {vectors[j] : j \in {k \in DOMAIN vectors : i < k /\ k <= i + BatchSize}}

\* The vectors of the batches whose upsert succeeded.
UploadedBatches(vectors, okStarts) ==
    UNION {Batch(vectors, i) : i \in okStarts}

(***************************************************************************)
(* The record of the last operation, the observable outcome of a call.     *)
(***************************************************************************)
NoCall ==
    [op |-> "none", text |-> "", namespace |-> "", top_k |-> 0, requested |-> 0,
     ok |-> TRUE, raw |-> <<>>, result |-> <<>>,
     upserted |-> {}, reported |-> 0]

QueryRecord(op, text, namespace, top_k, requested, ok, result) ==
    [NoCall EXCEPT !.op = op, !.text = text, !.namespace = namespace,
                   !.top_k = top_k, !.requested = requested, !.ok = ok,
                   !.raw = IF ok THEN StoreQuery(store, text, requested) ELSE <<>>,
                   !.result = result]

UploadRecord(op, upserted) ==
    [NoCall EXCEPT !.op = op, !.upserted = upserted, !.reported = Cardinality(upserted)]

TopKs == 1..MaxTopK

QueryOps == {"query_namespace", "query_vectors"}

\* A query changes nothing but the record of the last operation, and a
\* script run overwrites that record: every state reached by interleaving
\* runs and queries is reached by runs followed by one query.  The model
\* therefore takes script runs and first queries from states whose last
\* operation is not a query (Idle), and from the state after a query it
\* takes the repetitions of that query (the same text, namespace and top_k
\* against the unmodified index), each with its own transport outcome.
Idle == last.op \notin QueryOps

Repeats(op, text, namespace, top_k) ==
    /\ last.op = op
    /\ last.text = text
    /\ last.namespace = namespace
    /\ last.top_k = top_k

(***************************************************************************)
(* Retrieval operations.                                                   *)
(***************************************************************************)
QueryNamespace(text, namespace, top_k, ok) ==
    /\ last' = QueryRecord("query_namespace", text, namespace, top_k,
                           NamespaceFetchSize(top_k), ok,
                           query_namespace(store, text, namespace, top_k, ok))
    /\ UNCHANGED <<store, runs>>

QueryVectors(text, top_k, ok) ==
    /\ last' = QueryRecord("query_vectors", text, "dt", top_k,
                           VectorsFetchSize(top_k), ok,
                           query_vectors(store, text, top_k, ok))
    /\ UNCHANGED <<store, runs>>


(***************************************************************************)
(* Upload and administration scripts.  Each action is one run of a script; *)
(* a run whose early return changes nothing is a stuttering step.  The     *)
(* outcome of every index call (success or exception) is an input.         *)
(***************************************************************************)
\* scripts/embed_digitaltwin_namespaced.py embed_digital_twin
EmbedDigitalTwin(profile, okStarts) ==
    LET vectors == NamespacedDtVectors(create_content_chunks(profile))
        uploaded == UploadedBatches(vectors, okStarts)
    IN  /\ runs < MaxRuns
        /\ okStarts \subseteq BatchStarts(vectors)
        /\ store' = Upsert(store, uploaded)
        /\ last' = UploadRecord("embed_digital_twin", uploaded)
        /\ runs' = runs + 1

\* scripts/embed_foods_namespaced.py embed_foods_data ("if not content_chunks: return")
EmbedFoodsData(n, okStarts) ==
    LET vectors == NamespacedFoodVectors(create_food_chunks(n))
        uploaded == UploadedBatches(vectors, okStarts)
    IN  /\ runs < MaxRuns
        /\ n > 0
        /\ okStarts \subseteq BatchStarts(vectors)
        /\ store' = Upsert(store, uploaded)
        /\ last' = UploadRecord("embed_foods_data", uploaded)
        /\ runs' = runs + 1

\* embed_digitaltwin.py embed_digital_twin: one upsert of all vectors
\* ("if not content_chunks: return"; an exception is caught and reported).
EmbedDigitalTwinLegacy(chunks, ok) ==
    LET uploaded == IF ok THEN Range(LegacyDtVectors(chunks)) ELSE {}
    IN  /\ runs < MaxRuns
        /\ chunks # <<>>
        /\ store' = Upsert(store, uploaded)
        /\ last' = UploadRecord("embed_digital_twin_legacy", uploaded)
        /\ runs' = runs + 1

\* digitaltwin_rag.py setup_vector_database: uploads only when fetching
\* "dt-personal-1" finds nothing (or raises).
SetupVectorDatabase(chunks, fetchOk, ok) ==
    LET dt_exists == fetchOk /\ MkId("dt-", "personal-", <<1>>) \in IdsOf(store)
        uploaded == IF ok THEN Range(LegacyDtVectors(chunks)) ELSE {}
    IN  /\ runs < MaxRuns
        /\ ~dt_exists
        /\ chunks # <<>>
        /\ store' = Upsert(store, uploaded)
        /\ last' = UploadRecord("setup_vector_database", uploaded)
        /\ runs' = runs + 1

\* optimized_upload.py upload_optimized_data: one upsert per chunk, each in
\* its own try/except; okIdx are the chunks whose upsert succeeded.
UploadOptimizedData(data, okIdx) ==
    LET chunks == create_optimized_chunks(data)
        uploaded == {OptimizedVector(chunks[i]) : i \in okIdx}
    IN  /\ runs < MaxRuns
        /\ okIdx \subseteq DOMAIN chunks
        /\ store' = Upsert(store, uploaded)
        /\ last' = UploadRecord("upload_optimized_data", uploaded)
        /\ runs' = runs + 1

\* simple_optimized_upload.py upload_chunks
UploadChunks(okIdx) ==
    LET chunks == load_digital_twin_data
        uploaded == {OptimizedVector(chunks[i]) : i \in okIdx}
    IN  /\ runs < MaxRuns
        /\ okIdx \subseteq DOMAIN chunks
        /\ store' = Upsert(store, uploaded)
        /\ last' = UploadRecord("upload_chunks", uploaded)
        /\ runs' = runs + 1

\* scripts/reorganize_namespaces.py reorganize_into_clean_namespaces:
\* sample the index (top_k=100), delete every sampled id (each delete in its
\* own try/except), re-upload the profile chunks as "dt" and the food chunks
\* as "food".  A failing sample query ends the run with nothing changed.
ReorgSampleSize == 100

\* haveProfile = FALSE: config/digitaltwin.json cannot be opened, which ends
\* the run after the deletions.
ReorganizeIntoCleanNamespaces(deleted, haveProfile, profile, okDt, n, okFood) ==
    LET sampled == IdsOf(Range(StoreQuery(store, SampleText, ReorgSampleSize)))
        dtVectors == IF haveProfile THEN CleanDtVectors(create_content_chunks(profile))
                     ELSE <<>>
        foodVectors == IF haveProfile THEN CleanFoodVectors(create_food_chunks(n))
                       ELSE <<>>
        dtUploaded == UploadedBatches(dtVectors, okDt)
        foodUploaded == UploadedBatches(foodVectors, okFood)
    IN  /\ runs < MaxRuns
        /\ deleted \subseteq sampled
        /\ okDt \subseteq BatchStarts(dtVectors)
        /\ okFood \subseteq BatchStarts(foodVectors)
        /\ store' = Upsert(Upsert(Delete(store, deleted), dtUploaded), foodUploaded)
        /\ last' = UploadRecord("reorganize_into_clean_namespaces",
                                dtUploaded \cup foodUploaded)
        /\ runs' = runs + 1

\* reset_database.py reset_database: returns early on an empty index; an
\* exception of index.reset() is caught and leaves the index as it was.
ResetDatabase ==
    /\ runs < MaxRuns
    /\ store # {}
    /\ store' = {}
    /\ last' = [NoCall EXCEPT !.op = "reset_database"]
    /\ runs' = runs + 1

\* The index is shared with the Food RAG project, whose records this
\* repository does not write: records without metadata, and records whose
\* id prefix and namespace metadata disagree.
ForeignRecords ==
    { Vector(MkId("", "apple", <<>>), NoMetadata),
      Vector(MkId("dt-", "shared_", <<1>>), "food"),
      Vector(MkId("food-", "recipe_", <<1>>), "dt") }

ForeignUpsert(r) ==
    /\ runs < MaxRuns
    /\ store' = Upsert(store, {r})
    /\ last' = [NoCall EXCEPT !.op = "foreign_upsert"]
    /\ runs' = runs + 1


\* scripts/clean_and_rebuild_database.py clean_and_rebuild_database.
CleanupText == "sample query to find all vectors"
CleanupSampleSize == 200

\* The test of the loop over old_results: a hit is old when it has no
\* metadata or its namespace is neither 'digitaltwin' nor 'foods', or when
\* its id has neither the "dt-" nor the "food-" prefix.
IsOldVector(hit) ==
    \/ hit.ns = NoMetadata
    \/ hit.ns \notin {"digitaltwin", "foods"}
    \/ hit.id.prefix \notin {"dt-", "food-"}

old_vectors_to_delete(S) ==
    LET old_results == StoreQuery(S, CleanupText, CleanupSampleSize)
        old == SelectSeq(old_results, IsOldVector)
    IN  [i \in DOMAIN old |-> old[i].id]

\* The ids deleted when the deletes of the batch starting at index i stop
\* after done[i] ids: a failing index.delete leaves the rest of its batch.
DeletedIds(ids, done) ==
    {ids[k] : k \in {j \in DOMAIN ids :
                        \E i \in BatchStarts(ids) : i < j /\ j <= i + done[i]}}

\* One run of the cleanup: queryOk = FALSE is a failing sample query, which
\* the script reports before it ends with the index as it was.
CleanAndRebuildDatabase(queryOk, done) ==
    LET ids == IF queryOk THEN old_vectors_to_delete(store) ELSE <<>>
    IN  /\ runs < MaxRuns
        /\ done \in [BatchStarts(ids) -> {0, 1, BatchSize}]
        /\ store' = Delete(store, DeletedIds(ids, done))
        /\ last' = [NoCall EXCEPT !.op = "clean_and_rebuild_database"]
        /\ runs' = runs + 1

(***************************************************************************)
(* The retrieval specification: the index, the scripts that write it and   *)
(* the queries that read it.                                               *)
(***************************************************************************)

(***************************************************************************)
(* Text.  A text is a TLA+ string; Len, SubSeq and \o act on its           *)
(* characters.                                                             *)
(***************************************************************************)
Char(s, i) == SubSeq(s, i, i)

Min(S) == CHOOSE x \in S : \A y \in S : x <= y

UpperCase == "ABCDEFGHIJKLMNOPQRSTUVWXYZ"
LowerCase == "abcdefghijklmnopqrstuvwxyz"
Digits == "0123456789"

Chars(s) == {Char(s, i) : i \in 1..Len(s)}

UpperChars == Chars(UpperCase)
LowerChars == Chars(LowerCase)
DigitChars == Chars(Digits)

LowerOf ==
    [c \in UpperChars |->
        Char(LowerCase, CHOOSE i \in 1..Len(UpperCase) : Char(UpperCase, i) = c)]

\* str.lower() on one character.
LowerChar(c) == IF c \in UpperChars THEN LowerOf[c] ELSE c

\* str.lower(): the text is lower-cased character by character; it is split
\* in halves so that a long text needs only a shallow recursion.
RECURSIVE Lower(_)
Lower(s) ==
    IF Len(s) <= 1 THEN LowerChar(s)
    ELSE LET half == Len(s) \div 2
         IN  Lower(SubSeq(s, 1, half)) \o Lower(SubSeq(s, half + 1, Len(s)))

\* In a literal of a pattern, Wild stands for one arbitrary character (the
\* "." of the regular expression); every other character stands for itself.
Wild == "?"

HasWild(lit) == \E k \in 1..Len(lit) : Char(lit, k) = Wild

\* The literal lit occurs in s at position i.
LitAt(s, lit, i, wild) ==
    IF wild
    THEN \A k \in 1..Len(lit) : Char(lit, k) \in {Wild, Char(s, i + k - 1)}
    ELSE SubSeq(s, i, i + Len(lit) - 1) = lit

\* The position after the first occurrence of lit in s at or after position
\* from; 0 when there is none.
Find(s, lit, from) ==
    LET wild == HasWild(lit)
        hits == {i \in from..(Len(s) - Len(lit) + 1) : LitAt(s, lit, i, wild)}
    IN  IF hits = {} THEN 0 ELSE Min(hits) + Len(lit)

\* "lit in s" of Python.
Contains(s, lit) == Find(s, lit, 1) # 0

\* An alternative of a pattern is a sequence of literals separated by ".*":
\* the literals occur in s in this order, without overlapping.
RECURSIVE SearchFrom(_, _, _)
SearchFrom(alt, s, from) ==
    IF alt = <<>> THEN TRUE
    ELSE LET next == Find(s, Head(alt), from)
         IN  next # 0 /\ SearchFrom(Tail(alt), s, next)

\* re.search(pattern, s): a pattern is the set of its alternatives.  The
\* match is case-sensitive, as re.search is without flags.
re_search(pattern, s) == \E alt \in pattern : SearchFrom(alt, s, 1)

\* any(re.search(pattern, s) for pattern in patterns)
AnyPattern(patterns, s) == \E i \in DOMAIN patterns : re_search(patterns[i], s)

RECURSIVE Join(_)
Join(parts) ==
    IF parts = <<>> THEN ""
    ELSE IF Len(parts) = 1 THEN Head(parts)
    ELSE Head(parts) \o " " \o Join(Tail(parts))

(***************************************************************************)
(* QueryClassifier.  The pattern lists are those of __init__, each regular *)
(* expression written as the set of its alternatives: "a (b|c)" is         *)
(* {<<"a b">>, <<"a c">>}, "x.*y" is {<<"x", "y">>}, "x.?y" is             *)
(* {<<"xy">>, <<"x?y">>}, and a trailing optional character is dropped,    *)
(* since a search matches with or without it.                              *)
(***************************************************************************)
behavioral_patterns == <<
    {<<"tell me about a time">>, <<"tell me about when">>, <<"tell me about yourself">>},
    {<<"describe a situation">>, <<"describe an experience">>, <<"describe how you">>},
    {<<"give me an example">>},
    {<<"walk me through">>},
    {<<"how do you handle">>, <<"how do you deal with">>, <<"how do you approach">>},
    {<<"what would you do if">>},
    {<<"challenging project">>, <<"challenging situation">>, <<"challenging experience">>},
    {<<"difficult customer">>, <<"difficult situation">>, <<"difficult decision">>},
    {<<"conflict">>, <<"disagreement">>, <<"problem">>},
    {<<"leadership">>, <<"mentor">>, <<"team">>},
    {<<"failure">>, <<"mistake">>, <<"learn from">>},
    {<<"strength">>, <<"weakness">>, <<"improve">>},
    {<<"motivation">>, <<"passion">>, <<"drive">>}
>>

technical_patterns == <<
    {<<"explain your experience with">>, <<"explain how", "work">>},
    {<<"what is">>, <<"how does", "work">>},
    {<<"difference between">>},
    {<<"implement">>, <<"build">>, <<"develop">>, <<"code">>},
    {<<"algorithm">>, <<"data structure">>},
    {<<"database">>, <<"API">>, <<"framework">>},
    {<<"deployment">>, <<"cloud">>, <<"architecture">>},
    {<<"testing">>, <<"debugging">>, <<"optimization">>},
    {<<"RAG">>, <<"AI">>, <<"ML">>, <<"vector">>, <<"embedding">>},
    {<<"React">>, <<"Next.js">>, <<"Python">>, <<"JavaScript">>},
    {<<"fullstack">>, <<"full?stack">>, <<"frontend">>, <<"backend">>}
>>

project_patterns == <<
    {<<"Food RAG Explorer">>},
    {<<"digital twin">>, <<"personal digital twin">>},
    {<<"fullstack", "application">>, <<"full?stack", "application">>},
    {<<"portfolio">>, <<"github">>, <<"project">>},
    {<<"internship", "project">>},
    {<<"ausbiz", "project">>}
>>

company_patterns == <<
    {<<"why", "company">>, <<"why", "us">>},
    {<<"what do you know about">>},
    {<<"research", "company">>},
    {<<"fit", "culture">>, <<"culture", "fit">>},
    {<<"contribute", "team">>, <<"add", "value">>}
>>

salary_patterns == <<
    {<<"salary">>, <<"compensation">>, <<"pay">>, <<"money">>},
    {<<"expectations", "salary">>},
    {<<"budget">>, <<"rate">>, <<"cost">>},
    {<<"relocate">>, <<"location">>, <<"remote">>, <<"hybrid">>},
    {<<"visa">>, <<"authorization">>, <<"eligibility">>}
>>

availability_patterns == <<
    {<<"start date">>, <<"when", "start">>, <<"availability">>},
    {<<"notice", "period">>, <<"current", "job">>},
    {<<"graduate">>, <<"graduation">>, <<"finish", "degree">>},
    {<<"parttime">>, <<"part?time">>, <<"fulltime">>, <<"full?time">>, <<"hours", "week">>}
>>

QueryTypes ==
    {"BEHAVIORAL", "TECHNICAL", "PROJECT_SPECIFIC", "COMPANY_SPECIFIC",
     "SALARY_LOCATION", "AVAILABILITY", "PERSONAL_STORY", "GENERAL"}

\* A classifier that looks at the project patterns before the technical ones.
classify_query_project_first(text) ==
    LET question_lower == Lower(text)
    IN  IF AnyPattern(behavioral_patterns, question_lower) THEN "BEHAVIORAL"
        ELSE IF AnyPattern(project_patterns, question_lower) THEN "PROJECT_SPECIFIC"
        ELSE IF AnyPattern(technical_patterns, question_lower) THEN "TECHNICAL"
        ELSE IF AnyPattern(company_patterns, question_lower) THEN "COMPANY_SPECIFIC"
        ELSE IF AnyPattern(salary_patterns, question_lower) THEN "SALARY_LOCATION"
        ELSE IF AnyPattern(availability_patterns, question_lower) THEN "AVAILABILITY"
        ELSE "GENERAL"

classify_query(text) ==
    LET question_lower == Lower(text)
    IN  IF AnyPattern(behavioral_patterns, question_lower) THEN "BEHAVIORAL"
        ELSE IF AnyPattern(technical_patterns, question_lower) THEN "TECHNICAL"
        ELSE IF AnyPattern(project_patterns, question_lower) THEN "PROJECT_SPECIFIC"
        ELSE IF AnyPattern(company_patterns, question_lower) THEN "COMPANY_SPECIFIC"
        ELSE IF AnyPattern(salary_patterns, question_lower) THEN "SALARY_LOCATION"
        ELSE IF AnyPattern(availability_patterns, question_lower) THEN "AVAILABILITY"
        ELSE "GENERAL"

\* The questions of test_query_classification with the types it expects.
test_questions == <<
    <<"Tell me about a challenging project you worked on", "BEHAVIORAL">>,
    <<"Explain your experience with RAG systems", "TECHNICAL">>,
    <<"Why do you want to work at our company?", "COMPANY_SPECIFIC">>,
    <<"What are your salary expectations?", "SALARY_LOCATION">>,
    <<"When can you start?", "AVAILABILITY">>,
    <<"Tell me about your Food RAG Explorer", "PROJECT_SPECIFIC">>
>>

\* The sentences a question is made of: the questions of the test and three
\* more.  A question is at most MaxSentences of them, separated by a space.
Sentences ==
    {test_questions[i][1] : i \in DOMAIN test_questions}
        \cup {"Which API did you use in Python?",
              "How about the digital twin?",
              "Is it REMOTE?"}

QuestionText(sentences) == Join(sentences)

\* The caller puts one more sentence to the question it is about to ask.
AskQuestion(sentence) ==
    /\ Len(question) < MaxSentences
    /\ question' = Append(question, sentence)
    /\ classified' = "none"

\* One call classifier.classify_query(question).
ClassifyQuery ==
    /\ classified' = classify_query(QuestionText(question))
    /\ UNCHANGED question

NoQuestion == <<>>
NoResponse == [text |-> "", padding |-> 0]
NoValidation ==
    [query_type |-> "none", is_valid |-> FALSE, issues |-> <<>>,
     authenticity_score |-> 0]

(***************************************************************************)
(* ResponseValidator.  A response is [text, padding]: the text followed by *)
(* `padding` further words "and".  No literal the validator searches for   *)
(* contains "and", so an occurrence that is not in the text can only end   *)
(* with the blank before the first padding word: the searches look at the  *)
(* text followed by one padding word.                                      *)
(***************************************************************************)
PaddingWord == "and"

Searched(r) == IF r.padding = 0 THEN r.text ELSE r.text \o " " \o PaddingWord

\* The white space that str.split() separates words at.
WhiteSpace == {" ", "\n", "\t"}

\* len(text.split()): the number of maximal runs of non-blank characters.
WordCount(text) ==
    Cardinality({i \in 1..Len(text) :
                    /\ Char(text, i) \notin WhiteSpace
                    /\ i = 1 \/ Char(text, i - 1) \in WhiteSpace})

\* len(response.split())
word_count(r) == WordCount(r.text) + r.padding

\* any(literal in s for literal in literals)
AnyIn(literals, s) == \E i \in DOMAIN literals : Contains(s, literals[i])

\* sum(1 for literal in literals if literal in s)
CountIn(literals, s) == Cardinality({i \in DOMAIN literals : Contains(s, literals[i])})

IsDigit(c) == c \in DigitChars

IsWordChar(c) == c \in DigitChars \cup UpperChars \cup LowerChars \cup {"_"}

\* re.search(r'\d+', s)
HasNumber(s) == \E i \in 1..Len(s) : IsDigit(Char(s, i))

\* re.search(r'\b\d{4}\b', s)
HasYear(s) ==
    \E i \in 1..(Len(s) - 3) :
        /\ \A k \in 0..3 : IsDigit(Char(s, i + k))
        /\ i = 1 \/ ~IsWordChar(Char(s, i - 1))
        /\ i + 3 = Len(s) \/ ~IsWordChar(Char(s, i + 4))

first_person_indicators == <<"I ", "my ", "me ", "myself", "I'm ", "I've ">>

has_first_person_perspective(s) == AnyIn(first_person_indicators, s)

technologies == <<"React", "Next.js", "Python", "JavaScript", "Vercel", "AWS">>
specific_names == <<"ausbiz", "Victoria University", "Food RAG Explorer">>
time_periods == <<"week", "month", "day">>

has_specific_details(s) ==
    \/ HasNumber(s)
    \/ AnyIn(technologies, s)
    \/ AnyIn(specific_names, s)
    \/ HasYear(s)
    \/ AnyIn(time_periods, s)

NoIssue == "<None>"

\* A length check that applies the limits of a technical response to a
\* behavioral one as well.
check_response_length_technical_limits(r, query_type) ==
    IF query_type \in {"BEHAVIORAL", "TECHNICAL"}
    THEN IF word_count(r) < 60
         THEN "Technical response too short (should be 80-150 words)"
         ELSE IF word_count(r) > 200
         THEN "Technical response too long (should be 80-150 words)"
         ELSE NoIssue
    ELSE NoIssue

check_response_length(r, query_type) ==
    IF query_type = "BEHAVIORAL"
    THEN IF word_count(r) < 80
         THEN "Behavioral response too short (should be 120-200 words)"
         ELSE IF word_count(r) > 250
         THEN "Behavioral response too long (should be 120-200 words)"
         ELSE NoIssue
    ELSE IF query_type = "TECHNICAL"
    THEN IF word_count(r) < 60
         THEN "Technical response too short (should be 80-150 words)"
         ELSE IF word_count(r) > 200
         THEN "Technical response too long (should be 80-150 words)"
         ELSE NoIssue
    ELSE NoIssue

star_indicators == <<"situation", "task", "action", "result">>

has_star_structure(s) ==
    LET response_lower == Lower(s)
        explicit_markers == CountIn(star_indicators, response_lower)
        has_context == AnyIn(<<"when i", "during my", "at the time">>, response_lower)
        has_challenge == AnyIn(<<"needed to", "had to", "challenge was">>, response_lower)
        has_action == AnyIn(<<"i did", "i implemented", "i decided">>, response_lower)
        has_outcome == AnyIn(<<"result", "outcome", "success", "learned">>, response_lower)
    IN  \/ explicit_markers >= 2
        \/ has_context /\ has_challenge /\ has_action /\ has_outcome

\* The score in tenths: 0.2 is 2.
\* An authenticity score without the cap at 1.0.
calculate_authenticity_score_uncapped(s) ==
    2 * CountIn(<<"my experience", "when I", "I worked", "I built", "I learned">>, s)
        + (IF has_specific_details(s) THEN 3 ELSE 0)
        + CountIn(<<"challenging", "difficult", "learned", "mistake", "improved">>, s)
        + (IF AnyIn(<<"I'd", "that's", "it's", "really">>, s) THEN 2 ELSE 0)

calculate_authenticity_score(s) ==
    LET personal == 2 * CountIn(<<"my experience", "when I", "I worked", "I built",
                                  "I learned">>, s)
        specific == IF has_specific_details(s) THEN 3 ELSE 0
        honest == CountIn(<<"challenging", "difficult", "learned", "mistake",
                            "improved">>, s)
        tone == IF AnyIn(<<"I'd", "that's", "it's", "really">>, s) THEN 2 ELSE 0
        score == personal + specific + honest + tone
    IN  IF score > 10 THEN 10 ELSE score

known_companies == <<"ausbiz Consulting", "Victoria University", "Royal Albert Hotel">>

\* re.search(r'(\d+)\s*years? of experience', s)
HasExperienceTimeframe(s) ==
    \E i \in 1..Len(s) :
        /\ IsDigit(Char(s, i))
        /\ \E j \in (i + 1)..Len(s) :
              /\ \A k \in (i + 1)..(j - 1) : Char(s, k) = " "
              /\ \E lit \in {"year of experience", "years of experience"} :
                    /\ j + Len(lit) - 1 <= Len(s)
                    /\ LitAt(s, lit, j, FALSE)

check_for_hallucinations(s) ==
    (IF /\ AnyIn(<<"Google", "Microsoft", "Amazon">>, s)
        /\ ~AnyIn(known_companies, s)
     THEN <<"Potential hallucination: Unknown company mentioned">> ELSE <<>>)
    \o (IF HasExperienceTimeframe(s)
        THEN <<"Check experience timeframe accuracy">> ELSE <<>>)

\* A validator that asks every response, not only a behavioral one, for the
\* STAR structure.
validate_response_star_for_all(r, query_type) ==
    LET s == Searched(r)
        length_issue == check_response_length(r, query_type)
        issues ==
            (IF ~has_first_person_perspective(s)
             THEN <<"Response lacks first-person perspective">> ELSE <<>>)
            \o (IF ~has_specific_details(s)
                THEN <<"Response lacks specific details">> ELSE <<>>)
            \o (IF length_issue # NoIssue THEN <<length_issue>> ELSE <<>>)
            \o (IF ~has_star_structure(s)
                THEN <<"Behavioral response missing STAR structure">> ELSE <<>>)
            \o check_for_hallucinations(s)
    IN  [query_type |-> query_type,
         is_valid |-> Len(issues) = 0,
         issues |-> issues,
         authenticity_score |-> calculate_authenticity_score(s)]

validate_response(r, query_type) ==
    LET s == Searched(r)
        length_issue == check_response_length(r, query_type)
        issues ==
            (IF ~has_first_person_perspective(s)
             THEN <<"Response lacks first-person perspective">> ELSE <<>>)
            \o (IF ~has_specific_details(s)
                THEN <<"Response lacks specific details">> ELSE <<>>)
            \o (IF length_issue # NoIssue THEN <<length_issue>> ELSE <<>>)
            \o (IF query_type = "BEHAVIORAL" /\ ~has_star_structure(s)
                THEN <<"Behavioral response missing STAR structure">> ELSE <<>>)
            \o check_for_hallucinations(s)
    IN  [query_type |-> query_type,
         is_valid |-> Len(issues) = 0,
         issues |-> issues,
         authenticity_score |-> calculate_authenticity_score(s)]

\* The sentences a response text is made of, in the order they take in it.
ResponseSentences == <<
    "I led it",
    "My turn",
    "The Situation and task",
    "action gave result",
    "in 10 weeks",
    "at Google",
    "at ausbiz Consulting",
    "5 years of experience"
>>

\* The numbers of words a padded response has.
WordCounts == {79, 80, 150, MaxWords}

\* One more sentence is written to a response that is not padded yet; the
\* sentences come in the order of ResponseSentences, each at most once.
WriteSentence(i) ==
    /\ response.padding = 0
    /\ \A j \in i..Len(ResponseSentences) :
          ~Contains(response.text, ResponseSentences[j])
    /\ response' = [response EXCEPT
                       !.text = IF response.text = "" THEN ResponseSentences[i]
                                ELSE Join(<<response.text, ResponseSentences[i]>>)]
    /\ validation' = NoValidation

\* The response is padded to `words` words.
PadResponse(words) ==
    /\ response.padding = 0
    /\ words > WordCount(response.text)
    /\ response' = [response EXCEPT !.padding = words - WordCount(response.text)]
    /\ validation' = NoValidation

\* One call validator.validate_response(response, query_type).
ValidateResponse(query_type) ==
    /\ validation' = validate_response(response, query_type)
    /\ UNCHANGED response


NoInterview == [op |-> "none"]
NoBuild == [op |-> "none"]
NoAnswer == [op |-> "none"]
NoAnalysis == [op |-> "none"]

Init ==
    /\ store = {}
    /\ runs = 0
    /\ last = NoCall
    /\ question = NoQuestion
    /\ classified = "none"
    /\ response = NoResponse
    /\ validation = NoValidation
    /\ knowledge_base = <<>>
    /\ interview = NoInterview
    /\ build = NoBuild
    /\ rag = NoAnswer
    /\ practice_sessions = <<>>
    /\ trainer = NoAnalysis

\* Outcomes of a run of per-item index calls over the items `items`: every
\* call succeeds, every call fails, or exactly one call fails.
CallOutcomes(items) == {items, {}} \cup {items \ {x} : x \in items}

others == <<classifyVars, validateVars, interviewVars, buildVars, ragVars, trainerVars>>

EmbedDigitalTwinRun ==
    /\ Idle
    /\ \E profile \in Profiles : \E okStarts \in SUBSET {0} :
           EmbedDigitalTwin(profile, okStarts)
    /\ UNCHANGED others

EmbedFoodsDataRun ==
    /\ Idle
    /\ \E n \in 1..MaxFoods : \E okStarts \in SUBSET {0} : EmbedFoodsData(n, okStarts)
    /\ UNCHANGED others

EmbedDigitalTwinLegacyRun ==
    /\ Idle
    /\ \E chunks \in ContentChunkLists : \E ok \in BOOLEAN :
           EmbedDigitalTwinLegacy(chunks, ok)
    /\ UNCHANGED others

SetupVectorDatabaseRun ==
    /\ Idle
    /\ \E chunks \in ContentChunkLists : \E fetchOk, ok \in BOOLEAN :
           SetupVectorDatabase(chunks, fetchOk, ok)
    /\ UNCHANGED others

UploadOptimizedDataRun ==
    /\ Idle
    /\ \E data \in OptimizedData :
       \E okIdx \in CallOutcomes(DOMAIN create_optimized_chunks(data)) :
           UploadOptimizedData(data, okIdx)
    /\ UNCHANGED others

UploadChunksRun ==
    /\ Idle
    /\ \E okIdx \in CallOutcomes(DOMAIN load_digital_twin_data) : UploadChunks(okIdx)
    /\ UNCHANGED others

ReorganizeRun ==
    /\ Idle
    /\ \E deleted \in CallOutcomes(IdsOf(store)) :
          \/ ReorganizeIntoCleanNamespaces(deleted, FALSE, [personal_info |-> FALSE,
                 career_objectives |-> FALSE], {}, 0, {})
          \/ \E profile \in Profiles : \E okDt \in SUBSET {0} : \E n \in 0..MaxFoods :
             \E okFood \in SUBSET {0} :
                 ReorganizeIntoCleanNamespaces(deleted, TRUE, profile, okDt, n, okFood)
    /\ UNCHANGED others

ResetDatabaseRun == Idle /\ ResetDatabase /\ UNCHANGED others

ForeignUpsertRun ==
    /\ Idle
    /\ \E r \in ForeignRecords : ForeignUpsert(r)
    /\ UNCHANGED others

QueryNamespaceCall ==
    /\ \E text \in Texts : \E namespace \in {"dt", "food"} : \E top_k \in TopKs :
       \E ok \in BOOLEAN :
           /\ Idle \/ Repeats("query_namespace", text, namespace, top_k)
           /\ QueryNamespace(text, namespace, top_k, ok)
    /\ UNCHANGED others

QueryVectorsCall ==
    /\ \E text \in Texts : \E top_k \in TopKs : \E ok \in BOOLEAN :
           /\ Idle \/ Repeats("query_vectors", text, "dt", top_k)
           /\ QueryVectors(text, top_k, ok)
    /\ UNCHANGED others

Next ==
    \/ EmbedDigitalTwinRun
    \/ EmbedFoodsDataRun
    \/ EmbedDigitalTwinLegacyRun
    \/ SetupVectorDatabaseRun
    \/ ReorganizeRun
    \/ ResetDatabaseRun
    \/ ForeignUpsertRun
    \/ QueryNamespaceCall
    \/ QueryVectorsCall

Spec == Init /\ [][Next]_vars


(***************************************************************************)
(* The upload specification: every script that writes the index, without   *)
(* the queries.                                                            *)
(***************************************************************************)
NextUpload ==
    \/ EmbedDigitalTwinRun
    \/ EmbedFoodsDataRun
    \/ EmbedDigitalTwinLegacyRun
    \/ SetupVectorDatabaseRun
    \/ UploadOptimizedDataRun
    \/ UploadChunksRun
    \/ ReorganizeRun
    \/ ResetDatabaseRun

SpecUpload == Init /\ [][NextUpload]_vars

CleanAndRebuildDatabaseRun ==
    /\ Idle
    /\ \E queryOk \in BOOLEAN : \E done \in [{0} -> {0, 1, BatchSize}] \cup {<<>>} :
           CleanAndRebuildDatabase(queryOk, done)
    /\ UNCHANGED others

\* The cleanup among the scripts that write the namespaced records, and the
\* namespace query that reads them.
NextCleanup ==
    \/ EmbedDigitalTwinRun
    \/ EmbedFoodsDataRun
    \/ ReorganizeRun
    \/ ForeignUpsertRun
    \/ CleanAndRebuildDatabaseRun
    \/ QueryNamespaceCall

SpecCleanup == Init /\ [][NextCleanup]_vars

\* vectors[i:i+batch_size] as a list
BatchSlice(vectors, i) ==
    SubSeq(vectors, i + 1, IF i + BatchSize < Len(vectors) THEN i + BatchSize
                           ELSE Len(vectors))

NoUpload == [batches |-> <<>>, uploaded |-> <<>>, failed |-> <<>>,
             successful_uploads |-> 0]

\* A loop that gives up at the first failing batch.
RECURSIVE BatchLoopStoppingAtFailure(_, _, _)
BatchLoopStoppingAtFailure(vectors, i, okStarts) ==
    IF i >= Len(vectors) THEN NoUpload
    ELSE LET batch == BatchSlice(vectors, i)
             rest == IF i \in okStarts
                     THEN BatchLoopStoppingAtFailure(vectors, i + BatchSize, okStarts)
                     ELSE NoUpload
         IN  [batches |-> <<batch>> \o rest.batches,
              uploaded |-> (IF i \in okStarts THEN <<batch>> ELSE <<>>) \o rest.uploaded,
              failed |-> (IF i \in okStarts THEN <<>> ELSE <<(i \div BatchSize) + 1>>)
                             \o rest.failed,
              successful_uploads |-> (IF i \in okStarts THEN Len(batch) ELSE 0)
                                         + rest.successful_uploads]

\* The upload loop of embed_digital_twin, embed_foods_data and
\* reorganize_into_clean_namespaces from index i on: the batches handed to
\* index.upsert, those whose upsert succeeded (the batches starting at an
\* index of okStarts), the numbers of the batches reported as failed, and
\* the counter successful_uploads.
RECURSIVE BatchLoop(_, _, _)
BatchLoop(vectors, i, okStarts) ==
    IF i >= Len(vectors) THEN NoUpload
    ELSE LET batch == BatchSlice(vectors, i)
             rest == BatchLoop(vectors, i + BatchSize, okStarts)
         IN  [batches |-> <<batch>> \o rest.batches,
              uploaded |-> (IF i \in okStarts THEN <<batch>> ELSE <<>>) \o rest.uploaded,
              failed |-> (IF i \in okStarts THEN <<>> ELSE <<(i \div BatchSize) + 1>>)
                             \o rest.failed,
              successful_uploads |-> (IF i \in okStarts THEN Len(batch) ELSE 0)
                                         + rest.successful_uploads]

UploadScripts ==
    {"embed_digital_twin", "embed_foods_data", "reorganize_into_clean_namespaces"}

\* The upload loop of one script run over n prepared vectors, numbered in the
\* order of the list.
BatchedUpload(script, n, okStarts) ==
    LET vectors == [k \in 1..n |-> k]
    IN  /\ last = NoCall
        /\ okStarts \subseteq BatchStarts(vectors)
        /\ last' = [op |-> script, vectors |-> vectors, okStarts |-> okStarts,
                    loop |-> BatchLoop(vectors, 0, okStarts)]
        /\ UNCHANGED <<store, runs>>

BatchedUploadRun ==
    /\ \E script \in UploadScripts : \E n \in 0..MaxVectors :
       \E okStarts \in SUBSET {i \in 0..MaxVectors : i % BatchSize = 0} :
           BatchedUpload(script, n, okStarts)
    /\ UNCHANGED others

\* The upload loop over lists of up to MaxVectors vectors.
SpecBatches == Init /\ [][BatchedUploadRun]_vars

(***************************************************************************)
(* Properties of the retrieval and of the uploads.                         *)
(***************************************************************************)
DtLabels == {"dt", "digitaltwin"}
FoodLabels == {"food", "foods"}

\* The labels of the partition a queried namespace belongs to, and of the
\* other partition.
PartitionLabels(namespace) == IF namespace \in DtLabels THEN DtLabels ELSE FoodLabels
OtherLabels(namespace) == IF namespace \in DtLabels THEN FoodLabels ELSE DtLabels

ResultIds(result) == [i \in DOMAIN result |-> result[i].id]

StoredNs(id) == (CHOOSE r \in store : r.id = id).ns

\* C1: every result of query_namespace(text, N, top_k) is a stored record
\* whose namespace metadata is exactly N; a raw hit labelled with the other
\* partition, or without metadata, is not among the results.
NamespaceIsolation ==
    last.op = "query_namespace" =>
        /\ \A i \in DOMAIN last.result :
              /\ last.result[i].namespace = last.namespace
              /\ last.result[i].id \in IdsOf(store)
              /\ StoredNs(last.result[i].id) = last.namespace
        /\ \A j \in DOMAIN last.raw :
              (last.raw[j].ns \in OtherLabels(last.namespace) \cup {NoMetadata})
                  => last.raw[j].id \notin Range(ResultIds(last.result))

\* C1 witness: a query whose raw hits hold a record of the queried
\* namespace, a record of the other partition and a record without
\* metadata, and which returned something.
NamespaceIsolationWitness ==
    /\ last.op = "query_namespace"
    /\ last.result # <<>>
    /\ \E j \in DOMAIN last.raw : last.raw[j].ns \in OtherLabels(last.namespace)
    /\ \E j \in DOMAIN last.raw : last.raw[j].ns = NoMetadata

\* C2: a chunk uploaded by embed_digital_twin (label "digitaltwin") or by
\* embed_foods_data (label "foods") that is among the raw hits of a query of
\* its partition ("dt" or "food") is returned by that query.
UploadedChunksAreReturned ==
    (last.op = "query_namespace" /\ last.ok) =>
        \A j \in DOMAIN last.raw :
            last.raw[j].ns \in PartitionLabels(last.namespace)
                => last.raw[j].id \in Range(ResultIds(last.result))

\* C3: every record an upload path upserts has the id prefix of its
\* partition and the namespace metadata of that partition.
UpsertedIdAgreesWithNamespace ==
    \A r \in last.upserted :
        \/ r.id.prefix = "dt-" /\ r.ns \in DtLabels
        \/ r.id.prefix = "food-" /\ r.ns \in FoodLabels

MatchingHits(hits, namespace) == SelectSeq(hits, LAMBDA h : h.ns = namespace)

\* C4: query_namespace asks the index for more than top_k raw hits, and
\* returns top_k results whenever at least top_k records of the namespace
\* are among the first 3 x top_k hits of the index.
OverFetch ==
    (last.op = "query_namespace" /\ last.ok) =>
        /\ last.requested > last.top_k
        /\ Len(MatchingHits(StoreQuery(store, last.text, 3 * last.top_k),
                            last.namespace)) >= last.top_k
               => Len(last.result) = last.top_k

\* C5: query_namespace returns at most top_k results, each a raw hit of the
\* index with the id and score the index gave it; it returns exactly the
\* matching raw hits, and the empty sequence when none matches or when the
\* index call fails.
AtMostTopKRawHits ==
    last.op = "query_namespace" =>
        /\ Len(last.result) <= last.top_k
        /\ \A i \in DOMAIN last.result : \E j \in DOMAIN last.raw :
              /\ last.raw[j].id = last.result[i].id
              /\ last.raw[j].score = last.result[i].score
        /\ Len(last.result) = Len(MatchingHits(last.raw, last.namespace))
        /\ ~last.ok => last.result = <<>>

\* C5 witness: a "dt" query answered by an index that holds only "food"
\* records returned the empty sequence.
EmptyOnForeignNamespaceWitness ==
    /\ last.op = "query_namespace"
    /\ last.ok
    /\ last.namespace = "dt"
    /\ last.raw # <<>>
    /\ \A r \in store : r.ns = "food"
    /\ last.result = <<>>

\* C6: the result is the subsequence of the raw hits that match the
\* namespace, in the order of the index; and a call repeated against the
\* unmodified index, the index answering both times, returns the same
\* sequence.
ResultInStoreOrder ==
    last.op = "query_namespace" =>
        ResultIds(last.result) = ResultIds(MatchingHits(last.raw, last.namespace))

RepeatedQueryAgrees ==
    ( /\ last.op = "query_namespace" /\ last'.op = "query_namespace"
      /\ last'.text = last.text /\ last'.namespace = last.namespace
      /\ last'.top_k = last.top_k
      /\ store' = store
      /\ last.ok /\ last'.ok )
    => last'.result = last.result

QueryVectorsChecksMetadata ==
    last.op = "query_vectors" =>
        /\ Len(last.result) <= last.top_k
        /\ \A i \in DOMAIN last.result :
              /\ last.result[i].id.prefix = "dt-"
              /\ last.result[i].ns \in DtLabels


(***************************************************************************)
(* The classifier specification: questions are put together and            *)
(* classified.                                                             *)
(***************************************************************************)
AskQuestionStep ==
    /\ \E sentence \in Sentences : AskQuestion(sentence)
    /\ UNCHANGED <<storeVars, validateVars, interviewVars, buildVars, ragVars, trainerVars>>

ClassifyQueryCall ==
    /\ ClassifyQuery
    /\ UNCHANGED <<storeVars, validateVars, interviewVars, buildVars, ragVars, trainerVars>>

NextClassify ==
    \/ AskQuestionStep
    \/ ClassifyQueryCall

SpecClassify == Init /\ [][NextClassify]_vars

PriorityOrder ==
    <<"BEHAVIORAL", "TECHNICAL", "PROJECT_SPECIFIC", "COMPANY_SPECIFIC",
      "SALARY_LOCATION", "AVAILABILITY">>

PatternGroup(type) ==
    CASE type = "BEHAVIORAL" -> behavioral_patterns
      [] type = "TECHNICAL" -> technical_patterns
      [] type = "PROJECT_SPECIFIC" -> project_patterns
      [] type = "COMPANY_SPECIFIC" -> company_patterns
      [] type = "SALARY_LOCATION" -> salary_patterns
      [] type = "AVAILABILITY" -> availability_patterns

\* The places in the priority order of the groups that have a pattern
\* matching the lower-cased question.
MatchingGroups(text) ==
    LET lowered == Lower(text)
    IN  {i \in DOMAIN PriorityOrder : AnyPattern(PatternGroup(PriorityOrder[i]), lowered)}

FirstByPriority(text) ==
    LET matching == MatchingGroups(text)
    IN  IF matching = {} THEN "GENERAL" ELSE PriorityOrder[Min(matching)]

\* C8: classify_query returns one QueryType for every question: the first
\* type in the priority order whose group has a pattern matching the
\* lower-cased question, GENERAL when no group has one; and a second call
\* on the same question returns the same type.
ClassifiedFirstByPriority ==
    classified # "none" =>
        /\ classified \in QueryTypes
        /\ classified = FirstByPriority(QuestionText(question))

ReclassifyAgrees ==
    (classified # "none" /\ question' = question) => classified' = classified

ClassifyTotalDeterministicByPriority ==
    [](ClassifiedFirstByPriority) /\ [][ReclassifyAgrees]_vars

\* C8 witness: a classified question that matches the patterns of several
\* groups.
MultiMatchWitness ==
    /\ classified # "none"
    /\ Cardinality(MatchingGroups(QuestionText(question))) >= 2

PriorityRank(type) ==
    IF \E i \in DOMAIN PriorityOrder : PriorityOrder[i] = type
    THEN CHOOSE i \in DOMAIN PriorityOrder : PriorityOrder[i] = type
    ELSE Len(PriorityOrder) + 1

\* The literals the pattern lists write with capital letters, each with the
\* type of its group.
CapitalisedLiterals ==
    {<<"Food RAG Explorer", "PROJECT_SPECIFIC">>,
     <<"RAG", "TECHNICAL">>, <<"AI", "TECHNICAL">>, <<"ML", "TECHNICAL">>,
     <<"API", "TECHNICAL">>,
     <<"React", "TECHNICAL">>, <<"Next.js", "TECHNICAL">>,
     <<"Python", "TECHNICAL">>, <<"JavaScript", "TECHNICAL">>}

\* C9: every question of the classification test gets the type the test
\* expects, "Tell me about your Food RAG Explorer" getting
\* PROJECT_SPECIFIC; and a question that contains, in any letter case, the
\* words of a pattern written with capital letters is matched by that
\* pattern, so that it gets the type of the pattern's group or an earlier
\* one.
ClassificationTestExpectations ==
    classified # "none" =>
        /\ \A i \in DOMAIN test_questions :
              QuestionText(question) = test_questions[i][1]
                  => classified = test_questions[i][2]
        /\ \A c \in CapitalisedLiterals :
              Contains(Lower(QuestionText(question)), Lower(c[1]))
                  => PriorityRank(classified) <= PriorityRank(c[2])


(***************************************************************************)
(* The validator specification: responses are written and validated.       *)
(***************************************************************************)
WriteSentenceStep ==
    /\ \E i \in DOMAIN ResponseSentences : WriteSentence(i)
    /\ UNCHANGED <<storeVars, classifyVars, interviewVars, buildVars, ragVars, trainerVars>>

PadResponseStep ==
    /\ \E words \in WordCounts : PadResponse(words)
    /\ UNCHANGED <<storeVars, classifyVars, interviewVars, buildVars, ragVars, trainerVars>>

ValidateResponseCall ==
    /\ \E query_type \in {"BEHAVIORAL", "TECHNICAL", "GENERAL"} :
          ValidateResponse(query_type)
    /\ UNCHANGED <<storeVars, classifyVars, interviewVars, buildVars, ragVars, trainerVars>>

NextValidate ==
    \/ WriteSentenceStep
    \/ PadResponseStep
    \/ ValidateResponseCall

SpecValidate == Init /\ [][NextValidate]_vars

IsLengthIssue(issue) ==
    issue \in {"Behavioral response too short (should be 120-200 words)",
               "Behavioral response too long (should be 120-200 words)"}

HasAllStarKeywords(r) ==
    LET lowered == Lower(Searched(r))
    IN  \A i \in DOMAIN star_indicators : Contains(lowered, star_indicators[i])

\* The words of the response text.
RECURSIVE WordsFrom(_, _, _)
WordsFrom(text, i, word) ==
    IF i > Len(text) THEN (IF word = "" THEN {} ELSE {word})
    ELSE IF Char(text, i) = " "
    THEN (IF word = "" THEN {} ELSE {word}) \cup WordsFrom(text, i + 1, "")
    ELSE WordsFrom(text, i + 1, word \o Char(text, i))

\* The response has one of the words I, my, me, myself, in any letter case.
HasFirstPersonPronoun(r) ==
    \E w \in WordsFrom(Lower(r.text), 1, "") : w \in {"i", "my", "me", "myself"}

\* C10 as stated: a validated behavioral response of fewer than 80 words has
\* a length issue; one of 150 words with all four STAR keywords and a
\* first-person pronoun is valid.
StarResponseIsValid ==
    validation.query_type = "BEHAVIORAL" =>
        /\ word_count(response) < 80
              => \E i \in DOMAIN validation.issues : IsLengthIssue(validation.issues[i])
        /\ ( /\ word_count(response) = 150
             /\ HasAllStarKeywords(response)
             /\ HasFirstPersonPronoun(response) )
              => validation.is_valid

\* C10 amended: a validated behavioral response of fewer than 80 words has a
\* length issue; one of 150 words with all four STAR keywords, one of the
\* first-person indicators 'I ', 'my ', 'me ', 'myself', "I'm ", "I've ",
\* a specific detail (a number, a listed technology or name, or a time
\* period) and no hallucination issue is valid.
DetailedStarResponseIsValid ==
    validation.query_type = "BEHAVIORAL" =>
        /\ word_count(response) < 80
              => \E i \in DOMAIN validation.issues : IsLengthIssue(validation.issues[i])
        /\ ( /\ word_count(response) = 150
             /\ HasAllStarKeywords(response)
             /\ AnyIn(first_person_indicators, Searched(response))
             /\ has_specific_details(Searched(response))
             /\ check_for_hallucinations(Searched(response)) = <<>> )
              => validation.is_valid

\* C10 witness: a validated behavioral response of 150 words with the four
\* STAR keywords, a first-person indicator and a specific detail, found
\* valid.
DetailedStarResponseWitness ==
    /\ validation.query_type = "BEHAVIORAL"
    /\ word_count(response) = 150
    /\ HasAllStarKeywords(response)
    /\ AnyIn(first_person_indicators, Searched(response))
    /\ has_specific_details(Searched(response))
    /\ validation.is_valid


\* The response passes the first-person, specific-details and length checks
\* and, when the type is BEHAVIORAL, the STAR check.
PassesFourChecks(r, query_type) ==
    /\ has_first_person_perspective(Searched(r))
    /\ has_specific_details(Searched(r))
    /\ check_response_length(r, query_type) = NoIssue
    /\ query_type = "BEHAVIORAL" => has_star_structure(Searched(r))

\* C11 as stated: is_valid is true exactly when the response passes the
\* first-person, specific-details, length and (BEHAVIORAL only) STAR
\* checks, and exactly when the issue list is empty.
ValidIffFourChecks ==
    validation.query_type # "none" =>
        /\ validation.is_valid <=> (validation.issues = <<>>)
        /\ validation.is_valid <=> PassesFourChecks(response, validation.query_type)

\* C11 amended: is_valid is true exactly when the issue list is empty, and
\* exactly when the response passes the four checks and the hallucination
\* check (unknown company, experience timeframe) reports nothing.
ValidIffFourChecksAndNoHallucination ==
    validation.query_type # "none" =>
        /\ validation.is_valid <=> (validation.issues = <<>>)
        /\ validation.is_valid <=>
              ( /\ PassesFourChecks(response, validation.query_type)
                /\ check_for_hallucinations(Searched(response)) = <<>> )

\* C11 witness: a technical response without STAR structure was found
\* valid.
ValidWithoutStarWitness ==
    /\ validation.query_type = "TECHNICAL"
    /\ validation.is_valid
    /\ ~has_star_structure(Searched(response))

(***************************************************************************)
(* ResponseTemplateGenerator and InterviewOptimizedDigitalTwin.  The       *)
(* templates are the string literals of the _format_* methods.             *)
(***************************************************************************)
format_challenging_project_response ==
    "My Food RAG Explorer project presented a significant technical challenge that pushed my abilities.\n\n**Situation:** I built an AI application locally using Ollama and ChromaDB, but needed to migrate it to production for real-world use - something I'd never done before.\n\n**Task:** Transition from local development to cloud deployment while maintaining functionality and learning production-grade AI architecture along the way.\n\n**Action:** I systematically researched and implemented cloud alternatives: migrated from Ollama to Grok API, ChromaDB to Upstash vector database, designed the interface with V0.dev, and deployed on Vercel. I broke down each component and tackled them individually.\n\n**Result:** Successfully deployed a live AI application and gained deep understanding of RAG systems, vector embeddings, and production deployment pipelines. This experience taught me that complex challenges become manageable through systematic breakdown and persistent problem-solving."

format_learning_response ==
    "Great question! This actually happened during my Full Stack Developer internship with ausbiz Consulting, which was a 10-week intensive program.\n\n**Situation:** I had some basic coding knowledge from university, but I hadn't worked with modern production frameworks like React 19, Next.js 15, or cloud deployment before. The program was fast-paced, and we were expected to build and deploy real applications within those 10 weeks.\n\n**Task:** I needed to quickly master these technologies to successfully complete the program and build production-ready applications.\n\n**Action:** I adopted a very hands-on learning approach. I'd watch the training materials, but then immediately apply what I learned by building small features. I also made heavy use of GitHub Copilot and ChatGPT - not just to write code, but to understand *why* the code worked that way. When I got stuck, I'd ask specific questions rather than broad ones. For example, when learning about server-side rendering in Next.js, I didn't just read about it - I built a small feature that required SSR, broke it, and fixed it. That's how the concepts really stuck.\n\n**Result:** By the end of those 10 weeks, I had built multiple full-stack applications with React 19 and Next.js 15, integrated PostgreSQL databases with Prisma ORM, worked with AWS cloud services, and deployed production-ready applications to Vercel. I also earned my Full Stack Developer certification. This experience taught me that I thrive in intensive learning environments, and that I'm capable of picking up new technologies quickly when I combine structured learning with hands-on practice."

format_time_management_response ==
    "This is something I actually deal with every day! Right now, I'm managing my AI Builder internship, working as a Student Tutor and Mentor at Victoria University, working part-time as a Front Office Receptionist at Royal Albert Hotel, and completing my final year of studies.\n\n**Situation:** I needed to balance four significant commitments while maintaining quality in all areas and meeting everyone's expectations.\n\n**Task:** The challenge was finding a way to manage these responsibilities without burning out or compromising on quality in any area.\n\n**Action:** The key is that these roles actually fit together quite naturally. My mentoring role is most demanding during new student intakes - orientation periods at the start of semester. Those periods usually coincide with my university vacation breaks, when I'm authorized to work full-time on my student visa. My receptionist job is part-time evening shifts, which works perfectly because it doesn't conflict with my day-time university schedule or tutoring sessions. My internship is remote, so I don't lose time commuting. I use strategic scheduling, clear communication with all supervisors, and prioritization based on deadlines and impact.\n\n**Result:** I've successfully maintained all commitments while achieving a 6.17/7.0 GPA, supporting 100+ students, and completing intensive internship programs. What I've learned is that it's not just about being busy - it's about being intentional with your time. Each role actually complements the others - tutoring improves my technical communication, hospitality strengthens customer service skills, and internships provide real-world experience to share with students."

format_mentoring_response ==
    "I have a story that really shows how I approach this. I had a student who was struggling with our university's LMS system. She kept saying she was 'bad with technology' and getting frustrated every time she tried to navigate it.\n\n**Situation:** A student was struggling with the university's Learning Management System and was getting increasingly frustrated, convinced she was 'bad with technology.'\n\n**Task:** I needed to help her understand the system in a way that would build her confidence and create lasting understanding, not just solve the immediate problem.\n\n**Action:** Instead of just walking her through the steps again, I sat down and asked her about how she organizes things at home. She told me she's really good at organizing her house - everything has a place, and her kids always come to her when they can't find something. So I reframed the LMS as being like organizing a house. I said 'Think of each subject as a different room. Just like you have a kitchen for cooking and a bedroom for sleeping, each subject has its own space with everything you need for that class.' I showed her how the discussion forums were like the living room where everyone gathers to talk, and the assignment submissions were like a filing cabinet.\n\n**Result:** Suddenly, it all clicked for her. She wasn't bad with technology - she just needed a framework that made sense to her world. Now she's one of the most active students on the platform and even helps other students navigate it. That experience taught me that when someone doesn't understand a concept, it's usually not because they're incapable. It's because I haven't found the right way to connect it to something they already know."

format_introduction_response ==
    "I'm Jashandeep, a final-year IT student at Victoria University Brisbane with hands-on experience in full-stack development and AI systems.\n\nI've completed two internships with ausbiz Consulting - first as a Full Stack Developer building React and Next.js applications, and currently as an AI Builder developing digital twins and RAG systems. My standout project is the Food RAG Explorer, which I successfully migrated from local development to production using Grok API and Upstash.\n\nI also tutor and mentor over 100 students at university, which has sharpened my ability to communicate complex technical concepts clearly. I'm passionate about creating solutions that make a real impact, and I'm looking forward to contributing that same energy to your team."

format_rag_explanation ==
    "RAG - Retrieval-Augmented Generation - combines AI models with custom data retrieval for more accurate, context-aware responses.\n\nI implemented this in my Food RAG Explorer project with 105 food items. The system converts both the data and user queries into vector embeddings, performs similarity searches to find relevant information, then feeds that context to the AI model. This grounds responses in actual data rather than just general AI knowledge.\n\nI successfully migrated this from a local ChromaDB setup to production using Upstash vector database and Grok API, which taught me valuable lessons about scaling AI applications for real-world use."

format_fullstack_explanation ==
    "I've gained solid full-stack experience through my internship at ausbiz Consulting, working with modern JavaScript technologies.\n\nFrontend: React 19 and Next.js 15 with Tailwind CSS. I particularly value Next.js for its flexibility between server-side and client-side rendering, and TypeScript for maintaining code quality across the entire application.\n\nBackend: I build APIs using Next.js App Router and Node.js, with PostgreSQL and Prisma ORM for database management. I've implemented authentication, RESTful APIs, and worked with vector databases like Upstash for AI features.\n\nDeployment: All my applications are deployed on Vercel with proper environment variable management and production optimization. The tight integration between TypeScript, Prisma, and Next.js creates a really efficient development workflow."

format_deployment_explanation ==
    "I have strong experience deploying applications to Vercel, with a focus on smooth CI/CD workflows and security best practices.\n\nMy approach involves connecting GitHub repositories to Vercel for automatic deployments on each push, with proper environment variable configuration for sensitive data like API keys and database connections. For my Food RAG Explorer project, this included integrating Upstash vector database and Grok API.\n\nKey practices I follow: secure environment variable management, thorough testing before deployment, monitoring deployment logs, and implementing preview deployments for testing changes. Vercel's Git integration streamlines the entire process, allowing me to focus on development rather than infrastructure management."

format_ai_ml_explanation ==
    "I've had some really exciting hands-on experience with AI/ML integration, particularly through my internships with ausbiz Consulting.\n\nDuring my AI Builder internship, I'm working on enterprise-grade digital twin implementations. This involves creating AI systems that can represent real-world entities and processes using advanced AI architectures, vector embeddings, and RAG systems.\n\nFor my Food RAG Explorer project, I integrated multiple AI components:\n- Started with Ollama running locally for development, which gave me understanding of how LLMs work\n- Migrated to Grok API for production deployment\n- Implemented vector embeddings to convert food information into numerical representations\n- Set up a vector database (moved from ChromaDB to Upstash) to store and retrieve embeddings efficiently\n- Created the RAG pipeline that retrieves relevant information and augments the AI's responses\n\nWhat I've learned is that AI integration is about more than just calling an API. It's about:\n1. Understanding the problem: What's the best AI approach for this specific use case?\n2. Data preparation: Making sure your data is in the right format\n3. Prompt engineering: Crafting effective prompts to get quality responses\n4. Error handling: AI responses can be unpredictable, so you need good fallbacks\n5. User experience: How do you present AI outputs in a way that's helpful and trustworthy?\n\nI'm really excited about this field because it's moving so fast. I stay current by using tools like GitHub Copilot and Claude Desktop in my development workflow, which has also taught me a lot about working effectively with AI assistants."

format_salary_location_response ==
    "I'm flexible on compensation and really interested in finding the right fit. Based on my research of Brisbane market rates and considering my technical skills in AI/ML and full-stack development, I'm thinking in the range of $65,000 to $75,000 for an entry-level developer role, with potential for a premium for specialized AI/ML positions up to $85,000.\n\nWhat's most important to me is the opportunity to learn, contribute meaningfully, and grow with a great team. I'm also very interested in the role scope, mentorship opportunities, and growth potential - those factors are just as important as the base salary.\n\nIn terms of location, I'm based in Brisbane and would prefer to stay in Queensland - Brisbane, Gold Coast, or other Queensland locations work well for me. I'm also very open to remote or hybrid arrangements, and I have 20+ weeks of remote work experience from my internships with ausbiz Consulting, so I'm comfortable with remote collaboration.\n\nI'm graduating in June 2026, so I'm looking for positions that could potentially start part-time during my final semester and transition to full-time after graduation. Is there flexibility in the role structure to accommodate that timeline?"

format_availability_response ==
    "I'm graduating in June 2026, so my availability has two phases:\n\n**Current availability:** I'm authorized to work part-time during the semester - up to 20 hours per week - and full-time during university breaks. Right now I'm managing my AI Builder internship, mentoring responsibilities, and studies quite well, so I could potentially take on the right opportunity with proper scheduling.\n\n**Post-graduation:** From July 2026 onwards, I'll be available for full-time work and eligible for a post-study work visa, which gives me full work authorization in Australia.\n\nThe ideal scenario would be a role that could start part-time - maybe 15-20 hours per week - during my final semester, then transition to full-time once I graduate. This would actually be perfect timing for a graduate program intake.\n\nI have a good track record of balancing multiple commitments - I'm currently managing internship work, mentoring 100+ students, part-time hospitality work, and maintaining a 6.17 GPA. So I'm confident I can contribute meaningfully even on a part-time basis initially.\n\nIs there flexibility in the role structure to accommodate this kind of timeline? I'd love to discuss how we could make it work."

format_company_interest_response ==
    "I'd need to research your specific company to give you a detailed answer, but I can share what generally excites me about potential opportunities.\n\nI'm particularly drawn to companies that are doing innovative work with AI/ML technologies, especially those applying it to solve real business problems. Having built production AI systems like my Food RAG Explorer and digital twin implementations, I'm excited by organizations that are pushing the boundaries of what's possible with AI.\n\nI also value companies with strong engineering cultures - places where I can learn from experienced developers, contribute ideas even as a junior team member, and grow technically. My mentoring experience has shown me how much I learn when I'm around people who challenge me to think differently.\n\nFrom a practical standpoint, I'm looking for remote-friendly or Brisbane-based opportunities, and I'm particularly interested in companies that offer structured onboarding for new graduates - since I'm graduating in June 2026.\n\nCould you tell me more about what makes your company special? What are the engineering team's biggest challenges right now? And what does the learning and development culture look like? I'd love to understand what makes this opportunity unique and how I could contribute to your team's success."

\* QueryType.value
QueryTypeValue ==
    [BEHAVIORAL |-> "behavioral", TECHNICAL |-> "technical",
     PROJECT_SPECIFIC |-> "project_specific", COMPANY_SPECIFIC |-> "company_specific",
     SALARY_LOCATION |-> "salary_location", AVAILABILITY |-> "availability",
     PERSONAL_STORY |-> "personal_story", GENERAL |-> "general"]

\* [item for item in items if item.get('type') in types]
OfTypes(items, types) == SelectSeq(items, LAMBDA item : item.type \in types)

format_generic_behavioral_response(experiences) ==
    IF experiences # <<>>
    THEN LET exp == experiences[1]
         IN  "Let me share an example from my experience at "
                 \o Get(exp, "company", "my recent work") \o "...\n\n"
                 \o Get(exp, "content", "")
    ELSE "I'd be happy to share an example from my experience..."

generate_behavioral_response(text, context) ==
    LET experiences == OfTypes(context, {"experience", "personal_story"})
        question_lower == Lower(text)
    IN  IF AnyIn(<<"challenging", "difficult", "problem">>, question_lower)
        THEN format_challenging_project_response
        ELSE IF AnyIn(<<"learn", "technology", "quickly">>, question_lower)
        THEN format_learning_response
        ELSE IF AnyIn(<<"balance", "multiple", "responsibilities">>, question_lower)
        THEN format_time_management_response
        ELSE IF AnyIn(<<"mentor", "help", "explain">>, question_lower)
        THEN format_mentoring_response
        ELSE IF AnyIn(<<"tell me about yourself", "background">>, question_lower)
        THEN format_introduction_response
        ELSE format_generic_behavioral_response(experiences)

\* A generic technical answer built from the first chunk of the context,
\* whatever its type.
format_generic_technical_response_first_chunk(context) ==
    IF context # <<>>
    THEN "Based on my experience, " \o Get(context[1], "content", "")
    ELSE "I'd be happy to discuss my technical experience..."

format_generic_technical_response(context) ==
    LET tech_skills == OfTypes(context, {"skills"})
    IN  IF tech_skills # <<>>
        THEN "Based on my experience, " \o Get(tech_skills[1], "content", "")
        ELSE "I'd be happy to discuss my technical experience..."

generate_technical_response(text, context) ==
    LET question_lower == Lower(text)
    IN  IF Contains(question_lower, "rag")
        THEN format_rag_explanation
        ELSE IF AnyIn(<<"full stack", "full-stack">>, question_lower)
        THEN format_fullstack_explanation
        ELSE IF AnyIn(<<"deploy", "cloud", "vercel">>, question_lower)
        THEN format_deployment_explanation
        ELSE IF AnyIn(<<"ai", "ml", "artificial intelligence">>, question_lower)
        THEN format_ai_ml_explanation
        ELSE format_generic_technical_response(context)

\* The chunk types that _extract_relevant_context lists for a query type;
\* PERSONAL_STORY and GENERAL are not keys of the dictionary and get the
\* default of relevant_types.get.
relevant_types(query_type) ==
    CASE query_type = "BEHAVIORAL" -> {"experience", "personal_story", "strengths"}
      [] query_type = "TECHNICAL" -> {"skills", "projects", "education"}
      [] query_type = "PROJECT_SPECIFIC" -> {"projects"}
      [] query_type = "SALARY_LOCATION" -> {"salary_location", "availability"}
      [] query_type = "AVAILABILITY" -> {"availability"}
      [] query_type = "COMPANY_SPECIFIC" -> {"career", "strengths"}
      [] OTHER -> {"experience", "skills"}

\* A selection that keeps the last three chunks of the allowed types.
extract_relevant_context_last_three(content_chunks, query_type) ==
    LET relevant_chunks == OfTypes(content_chunks, relevant_types(query_type))
        n == Len(relevant_chunks)
    IN  SubSeq(relevant_chunks, n - Min({3, n}) + 1, n)

extract_relevant_context(content_chunks, query_type) ==
    LET relevant_chunks == OfTypes(content_chunks, relevant_types(query_type))
    IN  SubSeq(relevant_chunks, 1, Min({3, Len(relevant_chunks)}))

\* A generator that prefers the selected context to the fixed templates.
generate_contextual_response_context_first(query_type, context) ==
    IF context # <<>> THEN Get(context[1], "content", "")
    ELSE IF query_type = "SALARY_LOCATION" THEN format_salary_location_response
    ELSE IF query_type = "AVAILABILITY" THEN format_availability_response
    ELSE IF query_type = "COMPANY_SPECIFIC" THEN format_company_interest_response
    ELSE "I'd be happy to discuss that with you."

generate_contextual_response(query_type, context) ==
    IF query_type = "SALARY_LOCATION" THEN format_salary_location_response
    ELSE IF query_type = "AVAILABILITY" THEN format_availability_response
    ELSE IF query_type = "COMPANY_SPECIFIC" THEN format_company_interest_response
    ELSE IF context # <<>> THEN Get(context[1], "content", "")
    ELSE "I'd be happy to discuss that with you."

\* No company_context argument (None); the empty string is as falsy.
NoCompany == ""

customize_for_company(text, company_context) ==
    IF company_context # NoCompany
    THEN text \o "\n\nBased on what I know about " \o company_context
              \o ", this experience seems particularly relevant because..."
    ELSE text

\* Step 3 of process_interview_question: the generator is chosen by the type.
generate_response(text, query_type, context) ==
    IF query_type = "BEHAVIORAL" THEN generate_behavioral_response(text, context)
    ELSE IF query_type = "TECHNICAL" THEN generate_technical_response(text, context)
    ELSE generate_contextual_response(query_type, context)

\* [item.get('title', 'Unknown') for item in context]
Titles(context) == [i \in DOMAIN context |-> Get(context[i], "title", "Unknown")]

\* A pipeline that validates the generated response before the company
\* customization.
process_interview_question_validate_first(content_chunks, text, company_context) ==
    LET query_type == classify_query(text)
        context == extract_relevant_context(content_chunks, query_type)
        generated == generate_response(text, query_type, context)
    IN  [op |-> "process_interview_question",
         question |-> text,
         query_type |-> QueryTypeValue[query_type],
         response |-> IF company_context # NoCompany
                      THEN customize_for_company(generated, company_context)
                      ELSE generated,
         validation |-> validate_response([text |-> generated, padding |-> 0],
                                          query_type),
         context_used |-> Titles(context),
         company_context |-> company_context]

process_interview_question(content_chunks, text, company_context) ==
    LET query_type == classify_query(text)
        context == extract_relevant_context(content_chunks, query_type)
        generated == generate_response(text, query_type, context)
        customized == IF company_context # NoCompany
                      THEN customize_for_company(generated, company_context)
                      ELSE generated
    IN  [op |-> "process_interview_question",
         question |-> text,
         query_type |-> QueryTypeValue[query_type],
         response |-> customized,
         validation |-> validate_response([text |-> customized, padding |-> 0],
                                          query_type),
         context_used |-> Titles(context),
         company_context |-> company_context]

(***************************************************************************)
(* Knowledge bases and interview questions.  The knowledge base is the     *)
(* 'content_chunks' list handed to the constructor; a knowledge base       *)
(* without that key is the empty list.                                     *)
(***************************************************************************)
MkChunk(type, title, company, content) ==
    [type |-> type, title |-> title, company |-> company, content |-> content]

ExperienceChunk ==
    MkChunk("experience", "AI Builder Intern", "ausbiz Consulting",
            "I built a RAG system in 10 weeks")
BareExperienceChunk == MkChunk("experience", Absent, Absent, Absent)
SkillsChunk == MkChunk("skills", "Programming", Absent, "I use Python and React daily")
ProjectsChunk == MkChunk("projects", "Food RAG Explorer", Absent, "I built Food RAG Explorer")
StrengthsChunk == MkChunk("strengths", "Strengths", Absent, "I learn quickly")
UntypedChunk == MkChunk(Absent, Absent, Absent, "I like hiking")
AvailabilityChunk ==
    MkChunk("availability", "Availability", Absent, "I can start in July 2026")
CareerChunk == MkChunk("career", "Career", Absent, "I want to grow as a developer")

PoolChunks ==
    {ExperienceChunk, BareExperienceChunk, SkillsChunk, ProjectsChunk,
     StrengthsChunk, UntypedChunk}

SampleKnowledgeBases ==
    {<<ExperienceChunk, SkillsChunk, ProjectsChunk>>,
     <<AvailabilityChunk, CareerChunk, StrengthsChunk>>,
     <<StrengthsChunk>>,
     <<ProjectsChunk, BareExperienceChunk>>,
     <<UntypedChunk>>}

InterviewQuestions ==
    {"Tell me about a time you learned something quickly",
     "What are your salary expectations?",
     "When can you start?",
     "Why do you want to work at our company?",
     "Give me an example of teamwork",
     "What is the difference between lists and sets?",
     "What are your hobbies?",
     "How about the digital twin?",
     "Tell me about a challenging project you worked on",
     "Explain your experience with RAG systems"}

CompanyContexts == {NoCompany, "Suncorp"}

\* Questions put to the generators directly, with any query type.
GeneratorQuestions ==
    {"Give me an example of teamwork", "Explain your experience with RAG systems"}

\* The knowledge base is fixed at construction: chunks are put to it before
\* the first call.
AddChunk(chunk) ==
    /\ interview = NoInterview
    /\ Len(knowledge_base) < MaxPool
    /\ knowledge_base' = Append(knowledge_base, chunk)
    /\ UNCHANGED interview

LoadKnowledgeBase(content_chunks) ==
    /\ interview = NoInterview
    /\ knowledge_base = <<>>
    /\ knowledge_base' = content_chunks
    /\ UNCHANGED interview

\* A call is the first one on the twin or repeats the call before it.
FirstOrSame(op, text, key, value) ==
    \/ interview = NoInterview
    \/ interview.op = op /\ interview.question = text /\ interview[key] = value

\* One call twin.process_interview_question(question, company_context).
ProcessInterviewQuestion(text, company_context) ==
    /\ FirstOrSame("process_interview_question", text,
                   "company_context", company_context)
    /\ interview' = process_interview_question(knowledge_base, text, company_context)
    /\ UNCHANGED knowledge_base

\* One call twin._extract_relevant_context(question, query_type).
ExtractRelevantContext(text, query_type) ==
    /\ FirstOrSame("extract_relevant_context", text, "query_type", query_type)
    /\ interview' = [op |-> "extract_relevant_context",
                     question |-> text,
                     query_type |-> query_type,
                     context |-> extract_relevant_context(knowledge_base, query_type)]
    /\ UNCHANGED knowledge_base

\* Steps 2 and 3 of process_interview_question for a given query type: the
\* context is selected and the generator of the type answers from it.
GenerateResponse(text, query_type) ==
    LET context == extract_relevant_context(knowledge_base, query_type)
    IN  /\ FirstOrSame("generate_response", text, "query_type", query_type)
        /\ interview' = [op |-> "generate_response",
                         question |-> text,
                         query_type |-> query_type,
                         context |-> context,
                         response |-> generate_response(text, query_type, context)]
        /\ UNCHANGED knowledge_base

AddChunkStep ==
    /\ \E chunk \in PoolChunks : AddChunk(chunk)
    /\ UNCHANGED <<storeVars, classifyVars, validateVars, buildVars, ragVars, trainerVars>>

LoadKnowledgeBaseStep ==
    /\ \E content_chunks \in SampleKnowledgeBases : LoadKnowledgeBase(content_chunks)
    /\ UNCHANGED <<storeVars, classifyVars, validateVars, buildVars, ragVars, trainerVars>>

ProcessInterviewQuestionCall ==
    /\ \E text \in InterviewQuestions : \E company_context \in CompanyContexts :
           ProcessInterviewQuestion(text, company_context)
    /\ UNCHANGED <<storeVars, classifyVars, validateVars, buildVars, ragVars, trainerVars>>

ExtractRelevantContextCall ==
    /\ \E text \in GeneratorQuestions : \E query_type \in QueryTypes :
           ExtractRelevantContext(text, query_type)
    /\ UNCHANGED <<storeVars, classifyVars, validateVars, buildVars, ragVars, trainerVars>>

GenerateResponseCall ==
    /\ \E text \in GeneratorQuestions : \E query_type \in QueryTypes :
           GenerateResponse(text, query_type)
    /\ UNCHANGED <<storeVars, classifyVars, validateVars, buildVars, ragVars, trainerVars>>

\* Questions put one after the other to one twin.
SessionQuestions ==
    {"Tell me about a time you learned something quickly",
     "What is the difference between lists and sets?",
     "What are your hobbies?"}

\* A call that drops the chunks it used from the knowledge base.
AskInSessionConsumingContext(text, company_context) ==
    LET result == process_interview_question(knowledge_base, text, company_context)
    IN  /\ interview' = [op |-> "session",
                         calls |-> IF interview = NoInterview THEN 1
                                   ELSE interview.calls + 1,
                         previous |-> IF interview = NoInterview THEN Absent
                                      ELSE interview.result.question,
                         result |-> result]
        /\ knowledge_base' = SelectSeq(knowledge_base,
               LAMBDA chunk : Get(chunk, "title", "Unknown")
                                  \notin Range(result.context_used))

\* One call twin.process_interview_question(question, company_context) on a
\* twin that may have answered other questions before: the call reads
\* self.knowledge_base, self.classifier, self.template_generator and
\* self.validator and assigns none of them. The record keeps the number of
\* calls made on the twin and the question of the call before.
AskInSession(text, company_context) ==
    /\ interview' = [op |-> "session",
                     calls |-> IF interview = NoInterview THEN 1
                               ELSE interview.calls + 1,
                     previous |-> IF interview = NoInterview THEN Absent
                                  ELSE interview.result.question,
                     result |-> process_interview_question(knowledge_base, text,
                                                           company_context)]
    /\ UNCHANGED knowledge_base

AskInSessionCall ==
    /\ interview = NoInterview \/ (interview.op = "session" /\ interview.calls < MaxCalls)
    /\ \E text \in SessionQuestions : \E company_context \in CompanyContexts :
           AskInSession(text, company_context)
    /\ UNCHANGED <<storeVars, classifyVars, validateVars, buildVars, ragVars, trainerVars>>

\* Sessions of up to MaxCalls questions on one twin.
NextSession ==
    \/ LoadKnowledgeBaseStep
    \/ AskInSessionCall

SpecSession == Init /\ [][NextSession]_vars

\* The interview pipeline over a few knowledge bases.
NextInterview ==
    \/ LoadKnowledgeBaseStep
    \/ ProcessInterviewQuestionCall

SpecInterview == Init /\ [][NextInterview]_vars

\* Context selection and the generators over all knowledge bases of up to
\* MaxPool chunks.
NextContext ==
    \/ AddChunkStep
    \/ ExtractRelevantContextCall
    \/ GenerateResponseCall

SpecContext == Init /\ [][NextContext]_vars

(***************************************************************************)
(* Claims about the interview pipeline.                                    *)
(***************************************************************************)
LearningQuestion == "Tell me about a time you learned something quickly"

AnsweredLearningQuestion ==
    /\ interview.op = "process_interview_question"
    /\ interview.question = LearningQuestion
    /\ interview.company_context = NoCompany

\* C12: process_interview_question("Tell me about a time you learned
\* something quickly") classifies the question as BEHAVIORAL, answers with
\* the fixed learning template, which contains "ausbiz Consulting" and
\* "10 weeks" and has between 120 and 300 words, and the validation of the
\* answer with type BEHAVIORAL has is_valid = True.
LearningScenarioIsValid == AnsweredLearningQuestion =>
    /\ interview.query_type = "behavioral"
    /\ interview.response = format_learning_response
    /\ Contains(interview.response, "ausbiz Consulting")
    /\ Contains(interview.response, "10 weeks")
    /\ WordCount(interview.response) \in 120..300
    /\ interview.validation.query_type = "BEHAVIORAL"
    /\ interview.validation.is_valid

\* The fixed template of an intent that is answered without the knowledge base.
FixedTemplate(query_type_value) ==
    CASE query_type_value = "salary_location" -> format_salary_location_response
      [] query_type_value = "availability" -> format_availability_response
      [] query_type_value = "company_specific" -> format_company_interest_response

FixedIntents == {"salary_location", "availability", "company_specific"}

\* C13: a question classified SALARY_LOCATION ("What are your salary
\* expectations?"), AVAILABILITY or COMPANY_SPECIFIC is answered with the
\* fixed template of the intent verbatim, whatever the knowledge base holds
\* (any context chunks or none); a company context given with the call only
\* appends its sentence to the template.
FixedTemplateWhateverTheContext ==
    (interview.op = "process_interview_question"
     /\ interview.query_type \in FixedIntents) =>
        LET template == FixedTemplate(interview.query_type)
        IN  /\ Len(interview.response) >= Len(template)
            /\ SubSeq(interview.response, 1, Len(template)) = template
            /\ interview.company_context = NoCompany => interview.response = template
            /\ interview.question = "What are your salary expectations?"
                   => interview.query_type = "salary_location"

\* C13 witness: the salary question answered with the salary template over a
\* knowledge base from which a context chunk was selected.
SalaryTemplateDespiteContextWitness ==
    /\ interview.op = "process_interview_question"
    /\ interview.question = "What are your salary expectations?"
    /\ interview.company_context = NoCompany
    /\ interview.context_used # <<>>
    /\ interview.response = format_salary_location_response

\* The chunk types an intent allows: its entry in the mapping, and the
\* experience and skills types for the intents without an entry.
AllowList(query_type) ==
    IF query_type \in {"GENERAL", "PERSONAL_STORY"}
    THEN {"experience", "skills"}
    ELSE relevant_types(query_type)

\* The positions of the pool that hold a chunk of an allowed type.
AllowedPositions(query_type) ==
    {i \in DOMAIN knowledge_base : knowledge_base[i].type \in AllowList(query_type)}

\* The k-th of these positions in the order of the pool.
NthAllowed(query_type, k) ==
    CHOOSE p \in AllowedPositions(query_type) :
        Cardinality({q \in AllowedPositions(query_type) : q < p}) = k - 1

SelectedContext == interview.op \in {"extract_relevant_context", "generate_response"}

\* C17: for every intent and chunk pool, _extract_relevant_context returns
\* at most 3 chunks, all of a type in the allow-list of the intent (the
\* experience and skills types for GENERAL and PERSONAL_STORY), and they are
\* exactly the first 3 such chunks of the pool, in the order of the pool.
ContextIsFirstThreeAllowed == SelectedContext =>
    LET context == interview.context
        allowed == AllowedPositions(interview.query_type)
    IN  /\ Len(context) <= 3
        /\ \A i \in DOMAIN context : context[i].type \in AllowList(interview.query_type)
        /\ Len(context) = Min({3, Cardinality(allowed)})
        /\ \A k \in DOMAIN context :
               context[k] = knowledge_base[NthAllowed(interview.query_type, k)]

\* C17 witness: a pool of four chunks of allowed types, its last chunk unlike
\* the others, cut to its first three.
TruncatedContextWitness ==
    /\ interview.op = "extract_relevant_context"
    /\ Cardinality(AllowedPositions(interview.query_type)) = 4
    /\ Len(interview.context) = 3
    /\ interview.context[1] # interview.context[2]
    /\ \A k \in 1..3 : interview.context[k] # knowledge_base[4]

Templates ==
    {format_challenging_project_response, format_learning_response,
     format_time_management_response, format_mentoring_response,
     format_introduction_response, format_rag_explanation,
     format_fullstack_explanation, format_deployment_explanation,
     format_ai_ml_explanation, format_salary_location_response,
     format_availability_response, format_company_interest_response}

Fillers ==
    {"I'd be happy to share an example from my experience...",
     "I'd be happy to discuss my technical experience...",
     "I'd be happy to discuss that with you."}

\* text ends with body.
EndsWith(text, body) ==
    /\ Len(text) >= Len(body)
    /\ SubSeq(text, Len(text) - Len(body) + 1, Len(text)) = body

\* The generator has answered without a fixed template.
AnsweredWithoutTemplate ==
    /\ interview.op = "generate_response"
    /\ interview.query_type \in
           {"BEHAVIORAL", "TECHNICAL", "GENERAL", "PROJECT_SPECIFIC", "PERSONAL_STORY"}
    /\ interview.response \notin Templates

LeadsIn == interview.query_type \in {"BEHAVIORAL", "TECHNICAL"}

\* The response is the body, after a lead-in for BEHAVIORAL and TECHNICAL.
BuiltFrom(body) ==
    IF LeadsIn
    THEN EndsWith(interview.response, body) /\ Len(interview.response) > Len(body)
    ELSE interview.response = body

\* C18 as stated: when the generator uses no fixed template, the response
\* is built from the body of the first chunk of the selected context (after
\* a lead-in for BEHAVIORAL and TECHNICAL, raw otherwise), and a generic
\* filler sentence is returned only when the selected context is empty.
FallbackUsesFirstContextChunk == AnsweredWithoutTemplate =>
    /\ interview.context # <<>> =>
           BuiltFrom(Get(interview.context[1], "content", ""))
    /\ interview.response \in Fillers => interview.context = <<>>

\* The chunks of the selected context that the fallback of the query type
\* answers from.
Grounding ==
    IF interview.query_type = "BEHAVIORAL"
    THEN OfTypes(interview.context, {"experience", "personal_story"})
    ELSE IF interview.query_type = "TECHNICAL"
    THEN OfTypes(interview.context, {"skills"})
    ELSE interview.context

\* C18 amended: when the generator uses no fixed template, the response is
\* built from the body of the first chunk of the selected context that has
\* type experience or personal_story for BEHAVIORAL, type skills for
\* TECHNICAL, any type otherwise (after a lead-in for BEHAVIORAL and
\* TECHNICAL, raw otherwise; a chunk without body gives the empty body), and
\* the generic filler sentence is returned exactly when the selected context
\* has no such chunk.
FallbackUsesFirstChunkOfItsKind == AnsweredWithoutTemplate =>
    /\ Grounding # <<>> => BuiltFrom(Get(Grounding[1], "content", ""))
    /\ interview.response \in Fillers <=> Grounding = <<>>

\* C18 witness: a TECHNICAL question without template keyword, a selected
\* context that begins with a projects chunk, and the answer built from the
\* skills chunk behind it.
SkillsBehindProjectsWitness ==
    /\ AnsweredWithoutTemplate
    /\ interview.query_type = "TECHNICAL"
    /\ Len(interview.context) >= 2
    /\ interview.context[1].type = "projects"
    /\ Grounding # <<>>
    /\ BuiltFrom(Grounding[1].content)
    /\ ~BuiltFrom(interview.context[1].content)

(***************************************************************************)
(* The chunk builders on their own: create_content_chunks over profiles    *)
(* with every section, create_food_chunks over lists of food items.        *)
(***************************************************************************)
\* The text of a chunk id: f"{stem}{n1}_{n2}..." as the f-strings render it.
RECURSIVE NumsText(_)
NumsText(nums) ==
    IF nums = <<>> THEN ""
    ELSE IF Len(nums) = 1 THEN ToString(nums[1])
    ELSE ToString(nums[1]) \o "_" \o NumsText(Tail(nums))

IdText(id) == id.stem \o NumsText(id.nums)

\* Work experience entries: with their leaf fields and 0..MaxStories STAR
\* stories, or with no leaf field at all.
FullEntries ==
    {Entry("AI Builder", "ausbiz Consulting", "10 weeks", n) : n \in 0..MaxStories}

BareEntry == Entry(Absent, Absent, Absent, 0)

EntryLists ==
    UNION {[1..n -> FullEntries \cup {BareEntry}] : n \in 0..MaxEntries}

Category(category, is_list) == [category |-> category, is_list |-> is_list]

TechnicalSkills ==
    {<<>>,
     <<Category("frameworks", TRUE), Category("programming_languages", FALSE),
       Category("cloud", TRUE)>>,
     <<Category("ai_ml", FALSE)>>}

EducationLists == {<<>>, <<Entry("BSc", "Griffith", "3 years", 1)>>}

BehavioralCompetencies ==
    {<<>>, <<[competency_area |-> "leadership", competencies |-> 2],
             [competency_area |-> "teamwork", competencies |-> 1]>>}

InterviewPreparations ==
    {NoInterviewPreparation,
     [additional_star_stories |-> <<"leadership", "conflict">>,
      strength_stories |-> 1, challenge_stories |-> 0, growth_stories |-> 2]}

BuildProfiles ==
    [personal_info : BOOLEAN, career_objectives : BOOLEAN,
     work_experience : EntryLists, technical_skills : TechnicalSkills,
     projects : 0..MaxEntries, education : EducationLists,
     behavioral_competencies : BehavioralCompetencies,
     interview_preparation : InterviewPreparations,
     unique_value_propositions : BOOLEAN]

\* One call create_content_chunks(profile_data).
CreateContentChunks(profile) ==
    build' = [op |-> "create_content_chunks",
              profile |-> profile,
              foods |-> 0,
              chunks |-> create_content_chunks(profile)]

\* One call create_food_chunks(foods_data) on a list of n food items.
CreateFoodChunks(n) ==
    build' = [op |-> "create_food_chunks",
              profile |-> EmptyProfile,
              foods |-> n,
              chunks |-> create_food_chunks(n)]

\* A builder is called for the first time, on any input, or again on the
\* input of the call before.
BuildInputs(op, key, inputs) ==
    IF build = NoBuild THEN inputs
    ELSE IF build.op = op THEN {build[key]}
    ELSE {}

CreateContentChunksCall ==
    /\ \E profile \in BuildInputs("create_content_chunks", "profile", BuildProfiles) :
           CreateContentChunks(profile)
    /\ UNCHANGED <<storeVars, classifyVars, validateVars, interviewVars, ragVars, trainerVars>>

CreateFoodChunksCall ==
    /\ \E n \in BuildInputs("create_food_chunks", "foods", 0..MaxFoodItems) :
           CreateFoodChunks(n)
    /\ UNCHANGED <<storeVars, classifyVars, validateVars, interviewVars, ragVars, trainerVars>>

NextBuild ==
    \/ CreateContentChunksCall
    \/ CreateFoodChunksCall

SpecBuild == Init /\ [][NextBuild]_vars

(***************************************************************************)
(* The builders on malformed sub-records.  A sub-record of a list is       *)
(* either a dict, given by the set of the keys it has, or a value of the   *)
(* wrong shape (a string where a dict is expected).                        *)
(***************************************************************************)
NotADict == [shape |-> "str"]
Dict(keys) == [shape |-> "dict", keys |-> keys]

\* data[key] of a section that holds a list, and the section key missing.
Section(items) == [present |-> TRUE, items |-> items]
NoSection == [present |-> FALSE, items |-> <<>>]

StoryKeys == <<"situation", "task", "action", "result">>
ProjectKeys == <<"name", "description", "technologies", "key_features">>

\* The exception of the subscripts sub[key], taken in the order of keys:
\* a string subscripted by a string raises TypeError, a dict without the
\* key raises KeyError.
SubscriptError(sub, keys) ==
    IF sub = NotADict THEN "TypeError"
    ELSE IF \E k \in DOMAIN keys : keys[k] \notin sub.keys THEN "KeyError"
    ELSE "none"

\* The first exception of a loop "for sub in subs" whose body subscripts
\* sub by the keys.
RECURSIVE LoopError(_, _)
LoopError(subs, keys) ==
    IF subs = <<>> THEN "none"
    ELSE IF SubscriptError(Head(subs), keys) # "none"
         THEN SubscriptError(Head(subs), keys)
    ELSE LoopError(Tail(subs), keys)

Returned(chunks) == [raised |-> "none", chunks |-> chunks]
Raised(exception) == [raised |-> exception, chunks |-> <<>>]

\* create_optimized_chunks on data whose 'star_stories' and 'projects' are
\* lists of sub-records: the function has no try/except, so the first
\* exception of story['situation'] ... story['result'] or project['name']
\* ... project['key_features'] leaves it.
create_optimized_chunks_outcome(data) ==
    IF LoopError(data.star_stories.items, StoryKeys) # "none"
    THEN Raised(LoopError(data.star_stories.items, StoryKeys))
    ELSE IF LoopError(data.projects.items, ProjectKeys) # "none"
    THEN Raised(LoopError(data.projects.items, ProjectKeys))
    ELSE Returned(create_optimized_chunks([star_stories |-> data.star_stories.present,
                                           projects |-> data.projects.present]))

\* create_content_chunks on a profile whose work_experience list may hold
\* values of the wrong shape: experience.get(...) on a string raises
\* AttributeError, and the function has no try/except.
create_content_chunks_outcome(profile) ==
    IF \E i \in DOMAIN profile.work_experience : profile.work_experience[i] = NotADict
    THEN Raised("AttributeError")
    ELSE Returned(create_content_chunks(profile))

FullStory == {"situation", "task", "action", "result"}
FullProject == {"name", "description", "technologies", "key_features", "github"}

Sections(shapes) ==
    {NoSection} \cup {Section(items) :
                         items \in UNION {[1..n -> shapes] : n \in 0..MaxSubRecords}}

MalformedData ==
    [star_stories : Sections({Dict(FullStory), Dict(FullStory \ {"result"}), NotADict}),
     projects : Sections({Dict(FullProject), Dict(FullProject \ {"key_features"}),
                          NotADict})]

MalformedProfiles ==
    {[EmptyProfile EXCEPT !.personal_info = TRUE, !.work_experience = entries,
                          !.projects = n] :
        entries \in UNION {[1..k -> FullEntries \cup {BareEntry, NotADict}] :
                              k \in 0..MaxSubRecords},
        n \in 0..1}

\* One call create_optimized_chunks(data).
CreateOptimizedChunks(data) ==
    build' = [op |-> "create_optimized_chunks", data |-> data,
              outcome |-> create_optimized_chunks_outcome(data)]

\* One call create_content_chunks(profile_data) on a profile that may hold
\* sub-records of the wrong shape.
CreateContentChunksOfAnyShape(profile) ==
    build' = [op |-> "create_content_chunks", data |-> profile,
              outcome |-> create_content_chunks_outcome(profile)]

CreateOptimizedChunksCall ==
    /\ \E data \in BuildInputs("create_optimized_chunks", "data", MalformedData) :
           CreateOptimizedChunks(data)
    /\ UNCHANGED <<storeVars, classifyVars, validateVars, interviewVars, ragVars, trainerVars>>

CreateContentChunksOfAnyShapeCall ==
    /\ \E profile \in BuildInputs("create_content_chunks", "data", MalformedProfiles) :
           CreateContentChunksOfAnyShape(profile)
    /\ UNCHANGED <<storeVars, classifyVars, validateVars, interviewVars, ragVars, trainerVars>>

\* The builders over well-formed and malformed sub-records.
NextMalformed ==
    \/ CreateOptimizedChunksCall
    \/ CreateContentChunksOfAnyShapeCall

SpecMalformed == Init /\ [][NextMalformed]_vars

\* C15: no two chunks returned by one call of create_content_chunks have
\* the same id, the running counter being the last component of every id and
\* different for every chunk of the call; no two chunks returned by
\* create_food_chunks have the same id.
ChunkIdsAreUnique == build.op # "none" =>
    LET chunks == build.chunks
    IN  /\ \A i, j \in DOMAIN chunks :
               IdText(chunks[i].id) = IdText(chunks[j].id) => i = j
        /\ build.op = "create_content_chunks" =>
               \A i \in DOMAIN chunks :
                   chunks[i].id.nums[Len(chunks[i].id.nums)] = i

\* C15 witness: a build of a profile with two work experience entries, STAR
\* stories, skills, projects and interview stories.
ManyChunksWitness ==
    /\ build.op = "create_content_chunks"
    /\ Len(build.profile.work_experience) = 2
    /\ build.profile.work_experience[1].star_stories = 1
    /\ build.profile.technical_skills # <<>>
    /\ build.profile.projects = 2
    /\ build.profile.interview_preparation # NoInterviewPreparation
    /\ Len(build.chunks) >= 12

Built == build.op = "create_content_chunks"

\* The number of chunks of the build whose type is one of `types`.
ChunksOfTypes(types) ==
    Cardinality({i \in DOMAIN build.chunks : build.chunks[i].type \in types})

\* The chunks of the build with the id stem `stem` made for entry i.
ChunksOfEntry(stem, i) ==
    {k \in DOMAIN build.chunks :
        /\ build.chunks[k].id.stem = stem
        /\ build.chunks[k].id.nums[1] = i}

InterviewTypes ==
    {"interview_star_story", "interview_strength_stories",
     "interview_challenge_stories", "interview_growth_stories"}

\* An absent section contributes no chunk; the empty profile gives the
\* empty sequence.
AbsentSectionsGiveNoChunk ==
    LET profile == build.profile
    IN  /\ ~profile.personal_info => ChunksOfTypes({"personal_info", "availability"}) = 0
        /\ ~profile.career_objectives => ChunksOfTypes({"career_objectives"}) = 0
        /\ profile.work_experience = <<>> =>
               ChunksOfTypes({"work_experience", "star_story"}) = 0
        /\ profile.technical_skills = <<>> => ChunksOfTypes({"technical_skills"}) = 0
        /\ profile.projects = 0 => ChunksOfTypes({"project"}) = 0
        /\ profile.education = <<>> =>
               ChunksOfTypes({"education", "education_star_story"}) = 0
        /\ profile.behavioral_competencies = <<>> =>
               ChunksOfTypes({"behavioral_competency"}) = 0
        /\ profile.interview_preparation = NoInterviewPreparation =>
               ChunksOfTypes(InterviewTypes) = 0
        /\ ~profile.unique_value_propositions => ChunksOfTypes({"value_proposition"}) = 0
        /\ profile = EmptyProfile => build.chunks = <<>>

\* Every present section but technical_skills contributes its chunks:
\* personal_info two, every work experience entry one and one per STAR story.
PresentSectionsGiveChunks ==
    LET profile == build.profile
    IN  /\ profile.personal_info =>
               /\ ChunksOfTypes({"personal_info"}) = 1
               /\ ChunksOfTypes({"availability"}) = 1
        /\ profile.career_objectives => ChunksOfTypes({"career_objectives"}) = 1
        /\ \A i \in DOMAIN profile.work_experience :
               /\ Cardinality(ChunksOfEntry("experience_", i)) = 1
               /\ Cardinality(ChunksOfEntry("star_", i))
                      = profile.work_experience[i].star_stories
        /\ ChunksOfTypes({"project"}) = profile.projects
        /\ \A i \in DOMAIN profile.education :
               /\ Cardinality(ChunksOfEntry("education_", i)) = 1
               /\ Cardinality(ChunksOfEntry("edu_star_", i))
                      = profile.education[i].star_stories
        /\ profile.behavioral_competencies # <<>> =>
               ChunksOfTypes({"behavioral_competency"}) >= 1
        /\ profile.interview_preparation # NoInterviewPreparation =>
               ChunksOfTypes(InterviewTypes) >= 1
        /\ profile.unique_value_propositions => ChunksOfTypes({"value_proposition"}) = 1

\* The chunk of a work experience entry renders the missing leaf fields as
\* empty text.
MissingLeavesAreEmptyText ==
    \A i \in DOMAIN build.profile.work_experience :
        build.profile.work_experience[i] = BareEntry =>
            \A k \in ChunksOfEntry("experience_", i) :
                /\ build.chunks[k].title = " at "
                /\ build.chunks[k].content
                       = "Position:  at  (). Key responsibilities: . Achievements: . Technologies: ."

SubRecord(id) ==
    [stem |-> id.stem,
     position |-> IF id.nums = <<>> THEN <<>> ELSE SubSeq(id.nums, 1, Len(id.nums) - 1)]

\* The records embed_digital_twin has put into the index.
DigitalTwinRecords == {r \in store : r.ns = "digitaltwin" /\ r.id.prefix = "dt-"}

\* C14: the id create_content_chunks gives to the chunk of a sub-record of
\* the profile is the same on every build, also when other sections gained
\* or lost entries in between, so that the index never holds two records
\* with different ids for the same sub-record after a repeated upload.
OneRecordPerSubRecord ==
    \A r1, r2 \in DigitalTwinRecords :
        SubRecord(r1.id) = SubRecord(r2.id) => r1.id = r2.id

(***************************************************************************)
(* CompanyResponseCustomizer (company_response_customizer.py).             *)
(***************************************************************************)
CompanyProfile(key, name, industry, tech_stack, values, size) ==
    [key |-> key, name |-> name, industry |-> industry,
     tech_stack |-> tech_stack, values |-> values, size |-> size]

\* self.brisbane_companies, in the order of the dictionary.
brisbane_companies ==
    << CompanyProfile("suncorp", "Suncorp Group", "Financial Services/Insurance",
           <<"Java", "Python", "AWS", "Microservices", "React", "API Gateway">>,
           <<"Customer First", "Own It", "Be Bold", "Stay Curious">>,
           "Large Enterprise (14,000+ employees)"),
       CompanyProfile("flight_centre", "Flight Centre Travel Group", "Travel Technology",
           <<"Java", "JavaScript", "React", "Node.js", "AWS", "Microservices">>,
           <<"People First", "Customer Focused", "Bright Future", "Ownership">>,
           "Large Enterprise (18,000+ employees)"),
       CompanyProfile("xero", "Xero", "FinTech/SaaS",
           <<"C#", "React", "AWS", "Microservices", "TypeScript", "GraphQL">>,
           <<"Human", "Purposeful", "Adventurous">>,
           "Large (4,000+ employees)"),
       CompanyProfile("technologyone", "TechnologyOne", "Enterprise Software/SaaS",
           <<"Java", "React", "Angular", "AWS", "Microservices", "REST APIs">>,
           <<"Innovation", "Quality", "Service", "People">>,
           "Large (1,300+ employees)") >>

\* self.industry_patterns: the industries in the order of the dictionary,
\* with their keywords.
industry_patterns ==
    << [industry |-> "fintech",
        keywords |-> <<"financial", "banking", "payments", "investment", "trading">>],
       [industry |-> "consulting",
        keywords |-> <<"consulting", "advisory", "transformation", "strategy">>],
       [industry |-> "startup",
        keywords |-> <<"startup", "scale-up", "growth", "agile">>] >>

\* _identify_company returns no profile.
NoProfile == CompanyProfile("<none>", "", "", <<>>, <<>>, "")

\* sep.join(parts)
RECURSIVE JoinWith(_, _)
JoinWith(parts, sep) ==
    IF parts = <<>> THEN ""
    ELSE IF Len(parts) = 1 THEN parts[1]
    ELSE parts[1] \o sep \o JoinWith(Tail(parts), sep)

\* "".join(parts)
Concat(parts) == JoinWith(parts, "")

\* The profile _identify_company would take if the dictionary were looked
\* through from its end.
identify_company_last_match(company_context) ==
    LET context_lower == Lower(company_context)
        matches == {k \in DOMAIN brisbane_companies :
                       \/ Contains(context_lower, brisbane_companies[k].key)
                       \/ Contains(context_lower, Lower(brisbane_companies[k].name))}
    IN  IF matches = {} THEN NoProfile
        ELSE brisbane_companies[CHOOSE k \in matches : \A m \in matches : m <= k]

identify_company(company_context) ==
    LET context_lower == Lower(company_context)
        matches == {k \in DOMAIN brisbane_companies :
                       \/ Contains(context_lower, brisbane_companies[k].key)
                       \/ Contains(context_lower, Lower(brisbane_companies[k].name))}
    IN  IF matches = {} THEN NoProfile ELSE brisbane_companies[Min(matches)]

my_tech == {"Python", "JavaScript", "TypeScript", "React", "Next.js", "AWS", "Node.js"}

\* An if statement that appends `sentence` to the customizations.
When(condition, sentence) == IF condition THEN <<sentence>> ELSE <<>>

customize_for_known_company(base_response, company, query_type) ==
    LET matching_tech == SelectSeq(company.tech_stack, LAMBDA tech : tech \in my_tech)
        lower_values == {Lower(company.values[k]) : k \in DOMAIN company.values}
        customizations ==
            When(matching_tech # <<>> /\ query_type = "technical",
                 "\nWhat's particularly exciting about " \o company.name
                     \o " is your tech stack - I have hands-on experience with "
                     \o JoinWith(Prefix(matching_tech, 3), ", ")
                     \o ", which aligns well with your technology choices.")
            \o When(/\ query_type = "company_specific"
                    /\ "Customer" \in Range(company.values) \/ "customer" \in lower_values,
                    "\nYour focus on customer-centricity really resonates with me. Through my mentoring work supporting 100+ students and my hospitality experience, I've learned that understanding user needs is fundamental to building great solutions.")
            \o When(/\ query_type = "company_specific"
                    /\ "Innovation" \in Range(company.values) \/ "innovation" \in lower_values,
                    "\nI'm particularly drawn to " \o company.name
                        \o "'s emphasis on innovation. Building cutting-edge AI systems like my RAG implementation and digital twin projects has shown me how exciting it is to work with emerging technologies that solve real problems.")
            \o When(/\ company.industry = "Financial Services/Insurance"
                    /\ query_type \in {"behavioral", "company_specific"},
                    "\nWhile I don't have direct financial services experience, I'm genuinely interested in how technology can improve financial accessibility and user experience. My systematic approach to learning - demonstrated through mastering AI/ML technologies - would help me quickly understand your domain and contribute meaningfully.")
            \o When(company.industry = "Travel Technology",
                    "\nThe travel industry's focus on user experience and seamless digital interactions aligns perfectly with my full-stack development background and AI integration experience.")
            \o When(Contains(company.size, "Large Enterprise"),
                    "\nI'm excited about the opportunity to work at enterprise scale - my experience building production systems has shown me the importance of scalability, reliability, and collaboration in larger organizations.")
    IN  IF customizations # <<>>
        THEN base_response \o Concat(customizations)
        ELSE base_response

add_industry_customization(base_response, industry, query_type) ==
    LET customizations ==
            IF industry = "fintech" /\ query_type \in {"behavioral", "company_specific"}
            THEN <<"\nI'm particularly interested in fintech because of the intersection of technology and quantitative problem-solving. While I don't have direct finance experience, my systematic approach to learning complex technologies and my attention to detail in AI system development demonstrate the analytical thinking that's valuable in financial technology.">>
            ELSE IF industry = "consulting" /\ query_type = "behavioral"
            THEN <<"\nMy mentoring experience has taught me how to understand different client needs and adapt my communication style accordingly - skills that translate well to consulting environments where you need to quickly understand client contexts and deliver tailored solutions.">>
            ELSE IF industry = "startup" /\ query_type \in {"behavioral", "company_specific"}
            THEN <<"\nI'm excited about startup environments because of the opportunity to wear multiple hats and have direct impact. My experience managing multiple responsibilities - internship, mentoring, studies, and part-time work - has taught me how to be adaptable and take ownership.">>
            ELSE <<>>
    IN  IF customizations # <<>>
        THEN base_response \o Concat(customizations)
        ELSE base_response

generic_addition ==
    "\n\nI'd love to learn more about your specific challenges and how I could contribute to your team's success. Based on my research and what we've discussed, it sounds like there's a great alignment between my technical skills and growth mindset and what you're looking for."

add_generic_customization(base_response, query_type) ==
    IF query_type = "company_specific"
    THEN base_response \o generic_addition
    ELSE base_response

\* The first industry, in the order of the dictionary, with a keyword in the
\* context; "<none>" without one.
IndustryOf(context_lower) ==
    LET found == {k \in DOMAIN industry_patterns :
                     AnyIn(industry_patterns[k].keywords, context_lower)}
    IN  IF found = {} THEN "<none>" ELSE industry_patterns[Min(found)].industry

customize_for_industry(base_response, context, query_type) ==
    LET industry == IndustryOf(Lower(context))
    IN  IF industry # "<none>"
        THEN add_industry_customization(base_response, industry, query_type)
        ELSE add_generic_customization(base_response, query_type)

\* A customizer that puts the base response into a sentence of its own.
customize_response_rephrased(base_response, company_context, query_type) ==
    "As I said: " \o base_response

customize_response(base_response, company_context, query_type) ==
    LET company_profile == identify_company(company_context)
    IN  IF company_profile # NoProfile
        THEN customize_for_known_company(base_response, company_profile, query_type)
        ELSE customize_for_industry(base_response, company_context, query_type)

BaseResponses == {"", "I built a RAG system.", "I led the team"}

Companies ==
    {"Suncorp", "XERO", "Flight Centre Travel Group", "the flight_centre team",
     "Xero and Suncorp", "TechnologyOne", "a banking startup",
     "strategy consulting", "a growth startup", "Acme"}

CustomizerQueryTypes == {"technical", "behavioral", "company_specific", "general"}

\* One call customizer.customize_response(base_response, company_context,
\* query_type).
CustomizeResponse(base_response, company_context, query_type) ==
    interview' = [op |-> "customize_response",
                  base_response |-> base_response,
                  company_context |-> company_context,
                  query_type |-> query_type,
                  response |-> customize_response(base_response, company_context,
                                                  query_type)]

\* One call twin._customize_for_company(response, company_context).
CustomizeForCompany(base_response, company_context) ==
    interview' = [op |-> "customize_for_company",
                  base_response |-> base_response,
                  company_context |-> company_context,
                  query_type |-> "none",
                  response |-> customize_for_company(base_response, company_context)]

\* The inputs of a call that is the first one or repeats the call before it.
CustomizeInputs(op) ==
    IF interview = NoInterview
    THEN [base_response : BaseResponses,
          company_context : Companies \cup {NoCompany},
          query_type : CustomizerQueryTypes]
    ELSE IF interview.op = op
    THEN {[base_response |-> interview.base_response,
           company_context |-> interview.company_context,
           query_type |-> interview.query_type]}
    ELSE {}

CustomizeResponseCall ==
    /\ \E in \in CustomizeInputs("customize_response") :
           CustomizeResponse(in.base_response, in.company_context, in.query_type)
    /\ UNCHANGED <<storeVars, classifyVars, validateVars, buildVars, knowledge_base, ragVars, trainerVars>>

CustomizeForCompanyCall ==
    /\ \E in \in CustomizeInputs("customize_for_company") :
           CustomizeForCompany(in.base_response, in.company_context)
    /\ UNCHANGED <<storeVars, classifyVars, validateVars, buildVars, knowledge_base, ragVars, trainerVars>>

NextCustomize ==
    \/ CustomizeResponseCall
    \/ CustomizeForCompanyCall

SpecCustomize == Init /\ [][NextCustomize]_vars

Customized == interview.op \in {"customize_response", "customize_for_company"}

\* text begins with base.
StartsWith(text, base) ==
    /\ Len(text) >= Len(base)
    /\ SubSeq(text, 1, Len(base)) = base

\* C19: for every base response, company context and query type, the text
\* returned by customize_response and by _customize_for_company has the base
\* response as an exact prefix: sentences are only appended.
CustomizationIsAdditive == Customized =>
    StartsWith(interview.response, interview.base_response)

\* C19 witness: customize_response has appended sentences to a base response
\* that is not empty.
AppendedToBaseWitness ==
    /\ interview.op = "customize_response"
    /\ interview.base_response = "I built a RAG system."
    /\ Len(interview.response) > Len(interview.base_response)
    /\ StartsWith(interview.response, interview.base_response)

\* The profiles whose key or name is in the context, whatever the case of
\* the letters, by their place in the dictionary.
MatchingProfiles(company_context) ==
    {k \in DOMAIN brisbane_companies :
        \/ Contains(Lower(company_context), Lower(brisbane_companies[k].key))
        \/ Contains(Lower(company_context), Lower(brisbane_companies[k].name))}

\* The industries with a keyword in the context, by their place in the order
\* fintech, consulting, startup.
MatchingIndustries(company_context) ==
    {k \in DOMAIN industry_patterns :
        \E w \in DOMAIN industry_patterns[k].keywords :
            Contains(Lower(company_context), industry_patterns[k].keywords[w])}

\* The response is the one made for the first matching profile or, without
\* one, for the first matching industry.
ResolvedByProfileThenIndustry ==
    LET profiles == MatchingProfiles(interview.company_context)
        industries == MatchingIndustries(interview.company_context)
    IN  /\ profiles # {} =>
               interview.response
                   = customize_for_known_company(interview.base_response,
                                                 brisbane_companies[Min(profiles)],
                                                 interview.query_type)
        /\ (profiles = {} /\ industries # {}) =>
               interview.response
                   = add_industry_customization(interview.base_response,
                                                industry_patterns[Min(industries)].industry,
                                                interview.query_type)

Unresolved ==
    /\ MatchingProfiles(interview.company_context) = {}
    /\ MatchingIndustries(interview.company_context) = {}

\* C20 as stated: customize_response matches the context, in any case of
\* letters, against the keys and names of the profiles and uses only the
\* first profile in insertion order that matches; without a matching profile
\* it uses the first industry in the order fintech, consulting, startup with
\* a keyword in the context; without an industry keyword it appends the
\* generic closing sentence to the base response.
GenericClosingWhenUnresolved == interview.op = "customize_response" =>
    /\ ResolvedByProfileThenIndustry
    /\ Unresolved => interview.response = interview.base_response \o generic_addition

\* C20 amended: as above, but without an industry keyword the generic
\* closing sentence is appended only for the query type company_specific,
\* and the base response is returned unchanged for every other query type.
GenericClosingForCompanyQuestions == interview.op = "customize_response" =>
    /\ ResolvedByProfileThenIndustry
    /\ Unresolved =>
           interview.response
               = IF interview.query_type = "company_specific"
                 THEN interview.base_response \o generic_addition
                 ELSE interview.base_response

\* C20 witness: a context that names two known companies, the second of the
\* dictionary first, is answered for the first of the dictionary.
FirstProfileWinsWitness ==
    /\ interview.op = "customize_response"
    /\ interview.company_context = "Xero and Suncorp"
    /\ interview.query_type = "technical"
    /\ Cardinality(MatchingProfiles(interview.company_context)) = 2
    /\ Contains(interview.response, "Suncorp Group")
    /\ ~Contains(interview.response, "Xero")

(***************************************************************************)
(* Further claims about the validator.                                     *)
(***************************************************************************)
LengthIssues ==
    {"Behavioral response too short (should be 120-200 words)",
     "Behavioral response too long (should be 120-200 words)",
     "Technical response too short (should be 80-150 words)",
     "Technical response too long (should be 80-150 words)"}

HasLengthIssue == \E i \in DOMAIN validation.issues : validation.issues[i] \in LengthIssues

\* C22: a validated BEHAVIORAL response has no length issue iff its word
\* count is within 120..200, a TECHNICAL response iff its word count is
\* within 80..150.
LengthBands ==
    /\ validation.query_type = "BEHAVIORAL"
           => (~HasLengthIssue <=> word_count(response) \in 120..200)
    /\ validation.query_type = "TECHNICAL"
           => (~HasLengthIssue <=> word_count(response) \in 80..150)

PersonalPhrases == {"my experience", "when I", "I worked", "I built", "I learned"}
HonestyKeywords == {"challenging", "difficult", "learned", "mistake", "improved"}
ToneMarkers == {"I'd", "that's", "it's", "really"}

\* The weighted sum of the authenticity score in tenths, before the cap.
AuthenticityTenths(text) ==
    2 * Cardinality({phrase \in PersonalPhrases : Contains(text, phrase)})
        + (IF has_specific_details(text) THEN 3 ELSE 0)
        + Cardinality({keyword \in HonestyKeywords : Contains(text, keyword)})
        + (IF \E marker \in ToneMarkers : Contains(text, marker) THEN 2 ELSE 0)

\* C26: the authenticity_score of a validation lies in [0, 1] and is
\* min(1, 0.2 per personal-experience phrase present + 0.3 for specific
\* details + 0.1 per honesty keyword present + 0.2 for a conversational-tone
\* marker), in tenths.
AuthenticityScoreIsCappedSum == interview.op = "process_interview_question" =>
    /\ interview.validation.authenticity_score \in 0..10
    /\ interview.validation.authenticity_score
           = Min({10, AuthenticityTenths(interview.response)})

\* C26 witness: an answer whose weighted sum is above 1 and whose score is 1.
CappedAuthenticityWitness ==
    /\ interview.op = "process_interview_question"
    /\ AuthenticityTenths(interview.response) > 10
    /\ interview.validation.authenticity_score = 10

\* The query type with the value v.
TypeOfValue(v) == CHOOSE t \in QueryTypes : QueryTypeValue[t] = v

AsResponse(text) == [text |-> text, padding |-> 0]

\* The sentence _customize_for_company appends for a company context.
CompanySentence(company_context) ==
    "\n\nBased on what I know about " \o company_context
        \o ", this experience seems particularly relevant because..."

\* C27: in process_interview_question the question is classified first,
\* the context is selected for that type, the response is generated from
\* that context, the company sentence is appended only when a company
\* context is given, and the validation is computed last: the returned
\* validation is that of exactly the returned response text and query type,
\* and context_used lists the titles of at most 3 chunks.
PipelineOrder == interview.op = "process_interview_question" =>
    LET query_type == TypeOfValue(interview.query_type)
        context == extract_relevant_context(knowledge_base, query_type)
        generated == generate_response(interview.question, query_type, context)
    IN  /\ query_type = classify_query(interview.question)
        /\ Len(interview.context_used) <= 3
        /\ interview.context_used = Titles(context)
        /\ interview.response
               = IF interview.company_context = NoCompany THEN generated
                 ELSE generated \o CompanySentence(interview.company_context)
        /\ interview.validation
               = validate_response(AsResponse(interview.response), query_type)

\* C27 witness: a call with a company context whose validation differs from
\* the validation of the response before the customization.
ValidatedAfterCustomizationWitness ==
    /\ interview.op = "process_interview_question"
    /\ interview.company_context # NoCompany
    /\ interview.context_used # <<>>
    /\ LET query_type == TypeOfValue(interview.query_type)
           context == extract_relevant_context(knowledge_base, query_type)
           generated == generate_response(interview.question, query_type, context)
       IN  interview.validation # validate_response(AsResponse(generated), query_type)

\* C25: process_interview_question keeps no state across questions: a call
\* leaves the knowledge base unchanged, and its result after any sequence
\* of earlier questions is the result of the same call on a fresh twin
\* over the same knowledge base.
NoStateAcrossQuestions ==
    [][interview' # interview =>
          /\ knowledge_base' = knowledge_base
          /\ interview'.result
                 = process_interview_question(knowledge_base,
                                              interview'.result.question,
                                              interview'.result.company_context)]_vars

\* C25 witness: the third question on a twin follows a different question
\* and has selected context chunks.
LaterQuestionWitness ==
    /\ interview.op = "session"
    /\ interview.calls = MaxCalls
    /\ interview.previous # interview.result.question
    /\ interview.result.context_used # <<>>

\* A record whose id prefix and namespace label belong to the same
\* partition.
ProperlyNamespaced(r) ==
    \/ r.id.prefix = "dt-" /\ r.ns \in DtLabels
    \/ r.id.prefix = "food-" /\ r.ns \in FoodLabels

\* C28: clean_and_rebuild_database never deletes a vector that has the
\* "dt-" or "food-" prefix and the namespace label of its partition, the
\* labels "dt" and "food" that reorganize_into_clean_namespaces writes
\* included.
CleanupKeepsNamespacedVectors ==
    [][last'.op = "clean_and_rebuild_database" /\ runs' # runs =>
          \A r \in store : ProperlyNamespaced(r) => r \in store']_vars

RECURSIVE Flatten(_)
Flatten(lists) == IF lists = <<>> THEN <<>> ELSE Head(lists) \o Flatten(Tail(lists))

\* The batch of a run that starts at index i.
BatchAt(i) == last.loop.batches[(i \div BatchSize) + 1]

StartsIn(set) == SelectSeq([k \in 1..Len(last.loop.batches) |-> (k - 1) * BatchSize],
                           LAMBDA i : i \in set)

\* C30: the upload loop cuts the prepared vectors into consecutive batches
\* of at most 50 that cover every vector exactly once and in order; a
\* failing batch is reported and skipped without stopping the later
\* batches; the reported count is the total size of the batches that
\* succeeded, at most the number of vectors prepared.
BatchedUploadCoversAll == last.op \in UploadScripts =>
    LET loop == last.loop
        starts == BatchStarts(last.vectors)
    IN  /\ Flatten(loop.batches) = last.vectors
        /\ \A k \in DOMAIN loop.batches : Len(loop.batches[k]) \in 1..BatchSize
        /\ \A k \in DOMAIN loop.batches :
               k < Len(loop.batches) => Len(loop.batches[k]) = BatchSize
        /\ loop.uploaded = [k \in 1..Len(StartsIn(last.okStarts))
                                |-> BatchAt(StartsIn(last.okStarts)[k])]
        /\ loop.failed = [k \in 1..Len(StartsIn(starts \ last.okStarts))
                              |-> (StartsIn(starts \ last.okStarts)[k] \div BatchSize) + 1]
        /\ loop.successful_uploads = Len(Flatten(loop.uploaded))
        /\ loop.successful_uploads <= Len(last.vectors)

\* C30 witness: a run of three batches whose first batch fails and whose
\* later batches are uploaded, the last one shorter than 50.
LaterBatchesUploadedWitness ==
    /\ last.op \in UploadScripts
    /\ Len(last.loop.batches) = 3
    /\ last.loop.failed = <<1>>
    /\ Len(last.loop.uploaded) = 2
    /\ last.loop.successful_uploads = Len(last.vectors) - BatchSize

\* The chunks a builder returns whatever its lists of sub-records hold.
UnconditionalChunks ==
    IF build.op = "create_optimized_chunks"
    THEN create_optimized_chunks([star_stories |-> FALSE, projects |-> FALSE])
    ELSE create_content_chunks([build.data EXCEPT !.work_experience = <<>>])

\* C24: a malformed sub-record, or one that lacks an expected sub-field,
\* costs only its own chunk or section: the builders raise no exception and
\* still return the chunks of every other section.
DataErrorsAreLocal ==
    build.op \in {"create_optimized_chunks", "create_content_chunks"} =>
        /\ build.outcome.raised = "none"
        /\ Range(UnconditionalChunks) \subseteq Range(build.outcome.chunks)

(***************************************************************************)
(* RecruiterSatisfactionTrainer.  Scores are integers; overall_score is    *)
(* kept in hundredths and satisfaction_prediction in ten-thousandths, so   *)
(* that the weights 0.35, 0.25, 0.25, 0.15 and the factor 0.92 are the     *)
(* integers 35, 25, 25, 15 and 92.  A response is [text, padding] as for   *)
(* the validator; no keyword of the trainer contains the padding word.     *)
(***************************************************************************)
Cap(score, limit) == IF score < limit THEN score ELSE limit

ScoreIf(cond, points) == IF cond THEN points ELSE 0

\* _analyze_content_quality(response, context)
analyze_content_quality(r, context) ==
    LET low == Lower(Searched(r))
        company_name == Lower(context.company)
        relevance_count ==
            Cardinality({i \in DOMAIN context.key_skills :
                            Contains(low, Lower(context.key_skills[i]))})
    IN  Cap(ScoreIf(AnyIn(<<"%", "increased", "decreased", "improved", "reduced",
                            "grew", "achieved">>, low), 25)
            + ScoreIf(context.role_type = "technical"
                      /\ AnyIn(<<"architecture", "implementation", "optimization",
                                 "scalability", "performance">>, low), 20)
            + ScoreIf(company_name # "" /\ Contains(low, company_name), 15)
            + Cap(relevance_count * 5, 20)
            + ScoreIf(AnyIn(<<"when", "where", "how", "specifically", "for example",
                              "instance">>, low), 20),
            100)

\* The points of the "Length optimization" step of _analyze_structure.
LengthPoints(words) ==
    IF 225 <= words /\ words <= 450 THEN 30
    ELSE IF (180 <= words /\ words < 225) \/ (450 < words /\ words <= 500) THEN 20
    ELSE IF words < 180 \/ words > 500 THEN 10
    ELSE 0

\* The sum of _analyze_structure before "return min(score, 100)".
StructurePoints(r, text) ==
    LET low == Lower(Searched(r))
    IN  ScoreIf(AnyIn(<<"tell me about", "describe a time", "give me an example">>,
                      Lower(text)),
                CountIn(<<"situation", "task", "action", "result">>, low) * 15)
        + ScoreIf(AnyIn(<<"first", "then", "next", "finally", "as a result",
                          "this led to">>, low), 20)
        + LengthPoints(word_count(r))
        + ScoreIf(AnyIn(<<"in summary", "overall", "this experience", "as a result",
                          "ultimately">>, low), 20)

\* A structure score that is not capped.
analyze_structure_uncapped(r, text) == StructurePoints(r, text)

\* _analyze_structure(response, question)
analyze_structure(r, text) == Cap(StructurePoints(r, text), 100)

\* _analyze_professional_impact(response)
analyze_professional_impact(r) ==
    LET low == Lower(Searched(r))
    IN  Cap(Cap(CountIn(<<"led", "managed", "coordinated", "initiated", "drove",
                          "spearheaded">>, low) * 15, 30)
            + ScoreIf(AnyIn(<<"team", "collaborated", "worked with", "cross-functional",
                              "stakeholders">>, low), 20)
            + ScoreIf(AnyIn(<<"challenge", "problem", "obstacle", "difficulty", "issue",
                              "solved">>, low)
                      /\ AnyIn(<<"solution", "approach", "strategy", "method",
                                 "resolved">>, low), 25)
            + ScoreIf(AnyIn(<<"improved", "optimized", "enhanced", "streamlined",
                              "automated", "innovated">>, low), 25),
            100)

\* _analyze_engagement(response)
analyze_engagement(r) ==
    LET low == Lower(Searched(r))
    IN  Cap(ScoreIf(AnyIn(<<"learned", "grew", "developed", "gained", "discovered",
                            "realized">>, low), 30)
            + ScoreIf(AnyIn(<<"excited", "passionate", "love", "enjoy", "thrive",
                              "motivated">>, low), 25)
            + ScoreIf(AnyIn(<<"feedback", "mistake", "challenge", "difficult", "adapted",
                              "adjusted">>, low), 25)
            + ScoreIf(AnyIn(<<"continue", "next", "future", "going forward", "plan to",
                              "will">>, low), 20),
            100)

\* _generate_recommendations(analysis)
generate_recommendations(scores) ==
    (IF scores.content < 70
     THEN <<"Add specific, quantifiable examples with metrics",
            "Include more technical details relevant to the role",
            "Research and reference the company's specific challenges/goals">>
     ELSE <<>>)
    \o (IF scores.structure < 70
        THEN <<"Use STAR method for behavioral questions",
               "Add clear transitions between points",
               "Aim for 90-180 seconds (225-450 words)">>
        ELSE <<>>)
    \o (IF scores.impact < 70
        THEN <<"Emphasize leadership and initiative-taking",
               "Describe collaboration with teams/stakeholders",
               "Highlight problem-solving and innovation">>
        ELSE <<>>)
    \o (IF scores.engagement < 70
        THEN <<"Share authentic challenges and learning moments",
               "Express genuine enthusiasm for the opportunity",
               "Connect experiences to future goals">>
        ELSE <<>>)

\* analyze_response_quality(response, question, context): overall_score in
\* hundredths, satisfaction_prediction in ten-thousandths.
analyze_response_quality(r, text, context) ==
    LET scores == [content |-> analyze_content_quality(r, context),
                   structure |-> analyze_structure(r, text),
                   impact |-> analyze_professional_impact(r),
                   engagement |-> analyze_engagement(r)]
        overall == scores.content * 35 + scores.structure * 25
                   + scores.impact * 25 + scores.engagement * 15
    IN  [overall_score |-> overall,
         component_scores |-> scores,
         satisfaction_prediction |-> Cap(overall * 92 + 8 * 10000, 100 * 10000),
         recommendations |-> generate_recommendations(scores),
         strengths |-> <<>>,
         improvement_areas |-> <<>>]

\* sessions[-k:]
LastSessions(sessions, k) ==
    SubSeq(sessions, IF Len(sessions) > k THEN Len(sessions) - k + 1 ELSE 1,
           Len(sessions))

\* A window that takes every session.
recent_sessions_all(sessions) == sessions

\* recent_sessions = self.practice_sessions[-10:]
recent_sessions(sessions) == LastSessions(sessions, 10)

\* self.practice_sessions[-10:-5]
earlier_5(sessions) ==
    SubSeq(sessions, IF Len(sessions) > 10 THEN Len(sessions) - 9 ELSE 1,
           Len(sessions) - 5)

RECURSIVE SumOfSatisfaction(_)
SumOfSatisfaction(sessions) ==
    IF sessions = <<>> THEN 0
    ELSE Head(sessions).analysis.satisfaction_prediction
         + SumOfSatisfaction(Tail(sessions))

\* round(num / den, 1), in tenths, of the quotient of two integers whose
\* unit is the ten-thousandth: the nearest tenth, and either neighbour when
\* the quotient lies midway, where the binary fraction decides.
RoundTenths(num, den) ==
    LET unit == 1000 * den
        down == num \div unit
        below == num - down * unit
    IN  IF 2 * below < unit THEN {down}
        ELSE IF 2 * below > unit THEN {down + 1}
        ELSE {down, down + 1}

\* _calculate_trend()
calculate_trend(sessions) ==
    IF Len(sessions) < 5 THEN "Insufficient data"
    ELSE LET recent == SumOfSatisfaction(LastSessions(sessions, 5))
             earlier == earlier_5(sessions)
             m == Len(earlier)
         IN  IF m = 0 THEN "Building baseline"
             ELSE IF recent * m > (SumOfSatisfaction(earlier) + 2 * 10000 * m) * 5
                  THEN "Improving"
             ELSE IF recent * m < (SumOfSatisfaction(earlier) - 2 * 10000 * m) * 5
                  THEN "Declining"
             ELSE "Stable"

\* _get_next_milestones(current_avg) for the average num / den
get_next_milestones(num, den) ==
    IF num < 70 * 10000 * den THEN <<"Reach 70% satisfaction (Foundation)">>
    ELSE IF num < 80 * 10000 * den THEN <<"Reach 80% satisfaction (Competitive)">>
    ELSE IF num < 85 * 10000 * den THEN <<"Reach 85% satisfaction (TARGET)">>
    ELSE IF num < 90 * 10000 * den THEN <<"Reach 90% satisfaction (Excellence)">>
    ELSE <<"Maintain 90%+ satisfaction (Mastery)">>

target_satisfaction == 85

\* The reports get_progress_report() can return on the log `sessions`:
\* current_average and gap are in tenths.
get_progress_report(sessions) ==
    IF sessions = <<>> THEN {[message |-> "No practice sessions recorded yet"]}
    ELSE LET recent == recent_sessions(sessions)
             total == SumOfSatisfaction(recent)
             n == Len(recent)
         IN  {[current_average |-> average,
               target |-> target_satisfaction,
               gap |-> gap,
               sessions_completed |-> Len(sessions),
               trend |-> calculate_trend(sessions),
               next_milestones |-> get_next_milestones(total, n)] :
                 average \in RoundTenths(total, n),
                 gap \in RoundTenths(target_satisfaction * 10000 * n - total, n)}

\* The responses, questions and contexts of the analyses.
TrainerSentences == <<
    "I led and managed the team",
    "the challenge needed a new approach",
    "I improved and automated it",
    "The Situation and Task were clear, my action gave a result",
    "First I planned, overall it worked",
    "For example at Suncorp I tuned performance with Python, RAG, React, SQL on AWS",
    "I learned from feedback, I am excited about what I will do next"
>>

\* The sentences of the set `chosen`, in the order of TrainerSentences.
RECURSIVE TrainerText(_, _)
TrainerText(chosen, i) ==
    IF i > Len(TrainerSentences) THEN ""
    ELSE LET rest == TrainerText(chosen, i + 1)
         IN  IF i \notin chosen THEN rest
             ELSE IF rest = "" THEN TrainerSentences[i]
             ELSE TrainerSentences[i] \o ". " \o rest

TrainerWordCounts == {179, 180, 224, 225, 450, 451, 500, 501}

TrainerResponses ==
    {[text |-> TrainerText(chosen, 1), padding |-> 0] :
        chosen \in SUBSET DOMAIN TrainerSentences}
    \cup {[text |-> TrainerText(chosen, 1),
           padding |-> words - WordCount(TrainerText(chosen, 1))] :
             chosen \in {{}, {1}, {4, 5}, DOMAIN TrainerSentences},
             words \in TrainerWordCounts}

TrainerQuestions == {"Tell me about a time you led a team", "Why this role?"}

TrainerContexts ==
    {[role_type |-> "technical", company |-> "Suncorp",
      key_skills |-> <<"Python", "RAG", "React", "SQL", "AWS">>],
     [role_type |-> "general", company |-> "", key_skills |-> <<>>]}

\* One call trainer.analyze_response_quality(response, question, context).
AnalyzeResponseQuality(r, text, context) ==
    /\ trainer = NoAnalysis
    /\ trainer' = [op |-> "analyze_response_quality", response |-> r,
                   question |-> text, context |-> context,
                   result |-> analyze_response_quality(r, text, context)]
    /\ UNCHANGED practice_sessions

AnalyzeResponseQualityCall ==
    /\ \E r \in TrainerResponses : \E text \in TrainerQuestions :
       \E context \in TrainerContexts :
           AnalyzeResponseQuality(r, text, context)
    /\ UNCHANGED <<storeVars, classifyVars, validateVars, interviewVars, buildVars,
                   ragVars>>

\* The analyses of single responses.
SpecAnalyze == Init /\ [][AnalyzeResponseQualityCall]_vars

\* The practice rounds of a session: a weak answer and a strong one.
PracticeRounds ==
    {[question |-> "Why this role?",
      response |-> [text |-> "I like it", padding |-> 0],
      context |-> [role_type |-> "general", company |-> "", key_skills |-> <<>>]],
     [question |-> "Tell me about a time you led a team",
      response |-> [text |-> "I led the team, then I improved the result",
                    padding |-> 0],
      context |-> [role_type |-> "general", company |-> "", key_skills |-> <<>>]]}

\* One call trainer.practice_response(question, response, context).  The
\* timestamp of the entry is the reading of the clock, which nothing reads.
PracticeResponse(round) ==
    LET analysis == analyze_response_quality(round.response, round.question,
                                             round.context)
    IN  /\ Len(practice_sessions) < MaxSessions
        /\ practice_sessions' = Append(practice_sessions,
               [question |-> round.question, response |-> round.response,
                context |-> round.context, analysis |-> analysis])
        /\ trainer' = [op |-> "practice_response", result |-> analysis]

\* One call trainer.get_progress_report().
GetProgressReport ==
    /\ \E report \in get_progress_report(practice_sessions) :
           trainer' = [op |-> "get_progress_report", result |-> report]
    /\ UNCHANGED practice_sessions

PracticeResponseCall ==
    /\ \E round \in PracticeRounds : PracticeResponse(round)
    /\ UNCHANGED <<storeVars, classifyVars, validateVars, interviewVars, buildVars,
                   ragVars>>

GetProgressReportCall ==
    /\ GetProgressReport
    /\ UNCHANGED <<storeVars, classifyVars, validateVars, interviewVars, buildVars,
                   ragVars>>

\* Practice rounds and progress reports on one trainer.
NextPractice ==
    \/ PracticeResponseCall
    \/ GetProgressReportCall

SpecPractice == Init /\ [][NextPractice]_vars

\* C21: every analysis has four sub-scores that are integers in 0..100, an
\* overall score 0.35 content + 0.25 structure + 0.25 impact + 0.15
\* engagement, and a satisfaction prediction min(100, 0.92 overall + 8),
\* which lies in 8..100.
SatisfactionScoring == trainer.op = "analyze_response_quality" =>
    LET analysis == trainer.result
        scores == analysis.component_scores
    IN  /\ \A part \in {"content", "structure", "impact", "engagement"} :
               scores[part] \in 0..100
        /\ analysis.overall_score
               = 35 * scores.content + 25 * scores.structure
                 + 25 * scores.impact + 15 * scores.engagement
        /\ analysis.satisfaction_prediction
               = Min({100 * 10000, 92 * analysis.overall_score + 8 * 10000})
        /\ analysis.satisfaction_prediction \in (8 * 10000)..(100 * 10000)

\* C21 witness: an analysis whose structure points exceed 100 before the
\* cap and whose four sub-scores are all 100, so that the prediction is 100.
TopScoreWitness ==
    /\ trainer.op = "analyze_response_quality"
    /\ StructurePoints(trainer.response, trainer.question) > 100
    /\ trainer.result.component_scores
           = [content |-> 100, structure |-> 100, impact |-> 100, engagement |-> 100]
    /\ trainer.result.satisfaction_prediction = 100 * 10000

\* A practice step appends one entry, which holds the analysis returned, and
\* leaves the entries before it as they were.
AppendsOneEntry ==
    /\ Len(practice_sessions') = Len(practice_sessions) + 1
    /\ SubSeq(practice_sessions', 1, Len(practice_sessions)) = practice_sessions
    /\ practice_sessions'[Len(practice_sessions')].analysis = trainer'.result

AbsoluteValue(x) == IF x < 0 THEN 0 - x ELSE x

\* The sum of the predictions of the last min(n, 10) sessions, and their
\* number.
WindowSum(sessions) ==
    SumOfSatisfaction(SubSeq(sessions,
                             IF Len(sessions) > 10 THEN Len(sessions) - 9 ELSE 1,
                             Len(sessions)))
WindowSize(sessions) == Min({Len(sessions), 10})

\* What a report says of a log of n sessions, but for its average.
ReportCounts(report, sessions) ==
    IF sessions = <<>> THEN DOMAIN report = {"message"}
    ELSE /\ report.sessions_completed = Len(sessions)
         /\ Len(sessions) < 5 => report.trend = "Insufficient data"
         /\ Len(sessions) = 5 => report.trend = "Building baseline"

\* current_average (in tenths) is the mean of the window.
AverageIsMean(report, sessions) ==
    sessions # <<>> =>
        report.current_average * 1000 * WindowSize(sessions) = WindowSum(sessions)

\* current_average (in tenths) is the mean of the window rounded to one
\* decimal: it is within 0.05 of the mean.
AverageIsRoundedMean(report, sessions) ==
    sessions # <<>> =>
        2 * AbsoluteValue(report.current_average * 1000 * WindowSize(sessions)
                          - WindowSum(sessions))
            <= 1000 * WindowSize(sessions)

\* C29 as stated: every practice_response appends one entry and changes no
\* earlier one, so that n calls leave n entries in call order;
\* get_progress_report changes nothing, returns only a message on an empty
\* log, and otherwise reports sessions_completed = n, the trend
\* "Insufficient data" for n < 5 and "Building baseline" for n = 5, and a
\* current_average that is the mean prediction of the last min(n, 10)
\* sessions.
PracticeLogWithExactMean ==
    [][/\ trainer'.op = "practice_response" => AppendsOneEntry
       /\ trainer'.op = "get_progress_report" =>
              /\ practice_sessions' = practice_sessions
              /\ ReportCounts(trainer'.result, practice_sessions)
              /\ AverageIsMean(trainer'.result, practice_sessions)]_vars

\* C29 amended: as above, with a current_average that is the mean
\* prediction of the last min(n, 10) sessions rounded to one decimal.
PracticeLogWithRoundedMean ==
    [][/\ trainer'.op = "practice_response" => AppendsOneEntry
       /\ trainer'.op = "get_progress_report" =>
              /\ practice_sessions' = practice_sessions
              /\ ReportCounts(trainer'.result, practice_sessions)
              /\ AverageIsRoundedMean(trainer'.result, practice_sessions)]_vars

\* C29 witness: a report on more than ten sessions whose first session is
\* outside the window and changes the mean, and whose average is rounded.
RoundedWindowWitness ==
    /\ trainer.op = "get_progress_report"
    /\ Len(practice_sessions) > 10
    /\ practice_sessions[1] # practice_sessions[2]
    /\ SumOfSatisfaction(practice_sessions) * 10
           # WindowSum(practice_sessions) * Len(practice_sessions)
    /\ ~AverageIsMean(trainer.result, practice_sessions)
    /\ AverageIsRoundedMean(trainer.result, practice_sessions)

(***************************************************************************)
(* Question answering: NamespacedRAGSystem.digital_twin_query and          *)
(* food_query, rag_query of digitaltwin_rag.py, and call_tool of the MCP   *)
(* adapter.  The outcome of every external call (index query, completion,  *)
(* HTTP request) is an input.  An answer records its text, the number of   *)
(* external calls made, and whether an exception left the operation.       *)
(***************************************************************************)
\* The text of a completion, and str(e) of a failing external call.
CompletionText == "<completion>"
ErrorText == "<error>"

\* CrossMark and CheckMark stand for the characters U+274C and U+2705, and
\* Bullet for U+2022.
CrossMark == "(x)"
CheckMark == "(v)"
Bullet == "*"

Answer(text, completions) == [text |-> text, completions |-> completions, raised |-> FALSE]

\* A generator that tries the completion a second time when it fails.
rag_generate_response_retrying(relevant_chunks, namespace, completionOk) ==
    IF relevant_chunks = <<>>
    THEN Answer("I couldn't find relevant information in the '" \o namespace
                    \o "' namespace for your query.", 0)
    ELSE IF completionOk THEN Answer(CompletionText, 1)
    ELSE Answer("Error generating response: " \o ErrorText, 2)

\* NamespacedRAGSystem.generate_response(query, relevant_chunks, namespace)
rag_generate_response(relevant_chunks, namespace, completionOk) ==
    IF relevant_chunks = <<>>
    THEN Answer("I couldn't find relevant information in the '" \o namespace
                    \o "' namespace for your query.", 0)
    ELSE IF completionOk THEN Answer(CompletionText, 1)
    ELSE Answer("Error generating response: " \o ErrorText, 1)

\* digital_twin_query (namespace "dt") and food_query (namespace "food")
namespace_query(op, S, text, namespace, top_k, queryOk, completionOk) ==
    LET relevant_chunks == query_namespace(S, text, namespace, top_k, queryOk)
        answer == rag_generate_response(relevant_chunks, namespace, completionOk)
    IN  [op |-> op, query |-> text, namespace |-> namespace,
         queryOk |-> queryOk, completionOk |-> completionOk,
         relevant_chunks |-> relevant_chunks,
         response |-> answer.text,
         sources_count |-> Len(relevant_chunks),
         store_queries |-> 1, completions |-> answer.completions,
         http_requests |-> 0, raised |-> answer.raised]

\* generate_response_with_groq(client, prompt)
generate_response_with_groq(completionOk) ==
    IF completionOk THEN Answer(CompletionText, 1)
    ELSE Answer(CrossMark \o " Error generating response: " \o ErrorText, 1)

\* rag_query(index, groq_client, question): a document is extracted from
\* every result that has metadata.
rag_query(S, text, queryOk, completionOk) ==
    LET results == query_vectors(S, text, 3, queryOk)
        top_docs == SelectSeq(results, LAMBDA hit : hit.ns # NoMetadata)
        answer ==
            IF results = <<>>
            THEN Answer("I don't have specific information about that topic.", 0)
            ELSE IF top_docs = <<>>
            THEN Answer("I found some information but couldn't extract details. "
                        \o "The metadata structure might be different than expected.", 0)
            ELSE generate_response_with_groq(completionOk)
    IN  [op |-> "rag_query", query |-> text, namespace |-> "dt",
         queryOk |-> queryOk, completionOk |-> completionOk,
         relevant_chunks |-> results,
         response |-> answer.text,
         sources_count |-> Len(top_docs),
         store_queries |-> 1, completions |-> answer.completions,
         http_requests |-> 0, raised |-> answer.raised]

ToolNames == {"query_digital_twin", "get_sample_questions", "test_connection", "other"}

\* The outcomes of the HTTP request of call_tool: status 200 with the
\* expected body, status 200 with a body that lacks the key read, status
\* 500, httpx.TimeoutException, httpx.ConnectError, any other exception.
HttpOutcomes == {"200", "200 empty", "500", "timeout", "connect error", "error"}

TimeoutText ==
    "Error: Request timed out. Make sure the Next.js server is running on http://localhost:3000"
ConnectErrorText ==
    "Error: Cannot connect to the digital twin server. Make sure it's running on http://localhost:3000"

\* The text call_tool returns after its one request had the outcome http.
AfterRequest(name, http) ==
    IF http = "timeout" THEN TimeoutText
    ELSE IF http = "connect error" THEN ConnectErrorText
    ELSE IF http = "error" THEN "Error: " \o ErrorText
    ELSE IF http = "500"
         THEN (IF name = "test_connection"
               THEN CrossMark \o " Connection failed: HTTP 500"
               ELSE "Error: HTTP 500 - " \o ErrorText)
    ELSE IF name = "test_connection"
         THEN CheckMark \o " Connection to digital twin server successful!"
    ELSE IF name = "query_digital_twin"
         THEN (IF http = "200 empty" THEN "No response received" ELSE CompletionText)
    ELSE IF http = "200 empty" THEN "No sample questions available"
    ELSE "Sample questions you can ask:\n\n" \o Bullet \o " " \o "<question>"

\* call_tool(name, arguments) with arguments = {"question": text}
call_tool(name, text, http) ==
    LET requested == /\ name \in {"query_digital_twin", "get_sample_questions",
                                  "test_connection"}
                     /\ name = "query_digital_twin" => text # ""
    IN  [op |-> "call_tool", name |-> name, query |-> text, http |-> http,
         response |-> IF requested THEN AfterRequest(name, http)
                      ELSE IF name = "query_digital_twin"
                           THEN "Error: Question is required"
                      ELSE "Unknown tool: " \o name,
         store_queries |-> 0, completions |-> 0,
         http_requests |-> IF requested THEN 1 ELSE 0,
         raised |-> FALSE]

\* One question put to the system; the answer is kept in rag.
DigitalTwinQuery(text, top_k, queryOk, completionOk) ==
    rag' = namespace_query("digital_twin_query", store, text, "dt", top_k,
                           queryOk, completionOk)

FoodQuery(text, top_k, queryOk, completionOk) ==
    rag' = namespace_query("food_query", store, text, "food", top_k,
                           queryOk, completionOk)

RagQuery(text, queryOk, completionOk) ==
    rag' = rag_query(store, text, queryOk, completionOk)

CallTool(name, text, http) ==
    rag' = call_tool(name, text, http)

answerFrame ==
    <<storeVars, classifyVars, validateVars, interviewVars, buildVars, trainerVars>>

DigitalTwinQueryCall ==
    /\ rag = NoAnswer
    /\ \E text \in Texts : \E top_k \in TopKs : \E queryOk, completionOk \in BOOLEAN :
           DigitalTwinQuery(text, top_k, queryOk, completionOk)
    /\ UNCHANGED answerFrame

FoodQueryCall ==
    /\ rag = NoAnswer
    /\ \E text \in Texts : \E top_k \in TopKs : \E queryOk, completionOk \in BOOLEAN :
           FoodQuery(text, top_k, queryOk, completionOk)
    /\ UNCHANGED answerFrame

RagQueryCall ==
    /\ rag = NoAnswer
    /\ \E text \in Texts : \E queryOk, completionOk \in BOOLEAN :
           RagQuery(text, queryOk, completionOk)
    /\ UNCHANGED answerFrame

CallToolCall ==
    /\ rag = NoAnswer
    /\ \E name \in ToolNames : \E text \in {"", "What are your skills?"} :
       \E http \in HttpOutcomes :
           CallTool(name, text, http)
    /\ UNCHANGED answerFrame

\* Questions put to an index that the upload scripts and the other project
\* have written.
NextAnswer ==
    \/ rag = NoAnswer /\ ReorganizeRun
    \/ rag = NoAnswer /\ EmbedDigitalTwinLegacyRun
    \/ rag = NoAnswer /\ ForeignUpsertRun
    \/ DigitalTwinQueryCall
    \/ FoodQueryCall
    \/ RagQueryCall
    \/ CallToolCall

SpecAnswer == Init /\ [][NextAnswer]_vars

NotFoundAnswers ==
    {"I couldn't find relevant information in the 'dt' namespace for your query.",
     "I couldn't find relevant information in the 'food' namespace for your query.",
     "I don't have specific information about that topic."}

\* C23: transport failures never crash the question answering and are
\* never retried: no exception leaves digital_twin_query, food_query,
\* rag_query or call_tool; a question issues at most one store query and at
\* most one completion call, and call_tool at most one HTTP request; a
\* failing store query gives an empty result and a not-found answer, a
\* failing completion a descriptive error string, and a timeout or a
\* connection failure of call_tool an error text.
AnswersWithoutCrashOrRetry == rag.op # "none" =>
    /\ ~rag.raised
    /\ rag.store_queries <= 1
    /\ rag.completions <= 1
    /\ rag.http_requests <= 1
    /\ (rag.op # "call_tool" /\ ~rag.queryOk) =>
           /\ rag.relevant_chunks = <<>>
           /\ rag.completions = 0
           /\ rag.response \in NotFoundAnswers
    /\ (rag.op # "call_tool" /\ rag.completions > 0 /\ ~rag.completionOk) =>
           \/ StartsWith(rag.response, "Error generating response: ")
           \/ StartsWith(rag.response, CrossMark \o " Error generating response: ")
    /\ (rag.op = "call_tool" /\ rag.http_requests > 0
        /\ rag.http \in {"timeout", "connect error"}) =>
           StartsWith(rag.response, "Error: ")

\* C23 witness: a digital twin question whose store query returned chunks
\* and whose completion call failed.
FailedCompletionWitness ==
    /\ rag.op = "digital_twin_query"
    /\ rag.relevant_chunks # <<>>
    /\ ~rag.completionOk
    /\ rag.completions = 1
    /\ StartsWith(rag.response, "Error generating response: ")

====
